---- MODULE Spec2Model ----
(***************************************************************************)
(* A model of the excel read/write adapter (src/excel.py), of the          *)
(* process-pool parallel loaders (src/parallel_*.py) and of the package    *)
(* tracker (src/packagetracker/).                                          *)
(*                                                                         *)
(* Python values are records [k |-> <type tag>, v |-> <payload>]; strings  *)
(* that the code parses are sequences of one-character strings.            *)
(***************************************************************************)
EXTENDS Integers, Sequences, FiniteSets, TLC

\* a call of read, write or xl_cell_to_rowcol: its arguments, its outcome and
\* the sheet object it is made on
VARIABLES call, ret, sheet
\* a call of a parallel loader: the workbook file, the position of the calling
\* process, and the multiprocessing.Pool it uses (its state, its workers, its
\* two queues and the MapResult of the starmap call)
VARIABLES book, pc, pool_state, workers, taskqueue, outqueue, result

\* the package tracker: the two tables of packagetracker.db, the failures the
\* database has in store and the number of calls made on the database module
VARIABLES packages, package_versions, faults, ncalls
\* a macro of packagetracker.py: its position, the macro that called it, the
\* named cells of the workbook, the local variables of update_database
\* (the rows of df_packages still to do, logs, ret) and what was done so far
VARIABLES tpc, caller, cells, todo, logs, response, events

poolvars == <<book, pc, pool_state, workers, taskqueue, outqueue, result>>
dbvars == <<packages, package_versions, faults, ncalls>>
macrovars == <<tpc, caller, cells, todo, logs, response, events>>
trackvars == <<packages, package_versions, faults, ncalls,
               tpc, caller, cells, todo, logs, response, events>>
vars == <<call, ret, sheet, book, pc, pool_state, workers, taskqueue, outqueue, result,
          packages, package_versions, faults, ncalls,
          tpc, caller, cells, todo, logs, response, events>>

(***************************************************************************)
(* Bounds of the model.                                                    *)
(***************************************************************************)
\* longest column letter sequence of a generated cell reference
MaxColLen == 4
\* longest digit sequence of a generated cell reference
MaxDigits == 2
\* the largest sheet that is read or written is MaxRows x MaxCols
MaxRows == 2
MaxCols == 2
\* the largest workbook file has MaxSheets sheets
MaxSheets == 3
\* the longest list of requested sheet names
MaxRequested == 5
\* the largest number of processes of a pool
MaxWorkers == 2
\* the longest sequence of calls of the database module
MaxCalls == 3
\* the most statements that fail in the database
MaxFaults == 1
\* the most macros that Excel calls one after the other
MaxMacros == 1

(***************************************************************************)
(* Python values.                                                          *)
(***************************************************************************)
None == [k |-> "None", v |-> 0]
PyInt(n) == [k |-> "int", v |-> n]
PyStr(s) == [k |-> "str", v |-> s]
PyBool(b) == [k |-> "bool", v |-> b]
PyFloat(n) == [k |-> "float", v |-> n]
\* datetime.date and datetime.datetime, as a day number (days after 1899-12-30)
PyDate(d) == [k |-> "date", v |-> d]
PyDatetime(d) == [k |-> "datetime", v |-> d]
PyTuple(a, b) == [k |-> "tuple", v |-> <<a, b>>]
\* a list of lists, the data read returns
PyList(rows) == [k |-> "list", v |-> rows]
Return(x) == [k |-> "return", v |-> x]
Raise(e) == [k |-> "raise", v |-> e]
NoCall == [op |-> "none"]
NoSheet == [kind |-> "none"]
NoBook == [kind |-> "none", sheets |-> <<>>]
NoResult == [value |-> <<>>, number_left |-> 0, success |-> TRUE, error |-> "",
             chunksize |-> 0]
\* no parallel loader is called: there is no workbook and no pool
PoolIdle ==
    /\ book = NoBook
    /\ pc = "idle"
    /\ pool_state = "none"
    /\ workers = <<>>
    /\ taskqueue = <<>>
    /\ outqueue = <<>>
    /\ result = NoResult

NoCells == [new_package |-> None, feedback |-> None, log |-> <<>>,
            updated_at |-> None, package_selection |-> None,
            dropdown_content |-> <<>>]
NoResponse == [k |-> "none", status |-> 0, releases |-> <<>>]
\* no macro runs and no statement is sent to the database
MacroIdle ==
    /\ tpc = "idle"
    /\ caller = "none"
    /\ cells = NoCells
    /\ todo = <<>>
    /\ logs = <<>>
    /\ response = NoResponse
    /\ events = <<>>
\* there is no database file
TrackerIdle ==
    /\ packages = <<>>
    /\ package_versions = <<>>
    /\ faults = 0
    /\ ncalls = 0
    /\ MacroIdle

(***************************************************************************)
(* Characters.                                                             *)
(***************************************************************************)
Alphabet == <<"A", "B", "C", "D", "E", "F", "G", "H", "I", "J", "K", "L", "M",
              "N", "O", "P", "Q", "R", "S", "T", "U", "V", "W", "X", "Y", "Z">>
DigitChars == <<"0", "1", "2", "3", "4", "5", "6", "7", "8", "9">>
\* [A-Z]
IsUpper(ch) == \E i \in DOMAIN Alphabet : Alphabet[i] = ch
\* \d
IsDigit(ch) == \E i \in DOMAIN DigitChars : DigitChars[i] = ch
\* ord(char) - ord("A")
OrdMinusOrdA(ch) == (CHOOSE i \in DOMAIN Alphabet : Alphabet[i] = ch) - 1
DigitValue(ch) == (CHOOSE i \in DOMAIN DigitChars : DigitChars[i] = ch) - 1

RECURSIVE Pow(_, _)
Pow(b, e) == IF e = 0 THEN 1 ELSE b * Pow(b, e - 1)

\* int(row_str) for a string of decimal digits
RECURSIVE int(_)
int(s) == IF s = <<>> THEN 0
          ELSE 10 * int(SubSeq(s, 1, Len(s) - 1)) + DigitValue(s[Len(s)])

(***************************************************************************)
(* xl_cell_to_rowcol, src/excel.py:196-253.                                *)
(***************************************************************************)
\* {1,3} of the pattern's column group
ReMaxLetters == 3
\* the base of the column string
ColBase == 26

\* number of leading characters of s, at most max, that satisfy the class
RECURSIVE Run(_, _, _)
Run(s, max, isdigit) ==
    IF s = <<>> \/ max = 0 THEN 0
    ELSE IF (IF isdigit THEN IsDigit(Head(s)) ELSE IsUpper(Head(s)))
         THEN 1 + Run(Tail(s), max - 1, isdigit)
         ELSE 0

\* (\$?): one "$" is skipped when it is there
SkipDollar(s) == IF s # <<>> /\ Head(s) = "$" THEN Tail(s) ELSE s

\* (\d+) on what follows the column and its "$": row_str is the digits s starts with
MatchRow(col_str, s, ndig) ==
    IF ndig >= 1 THEN [k |-> "match", v |-> <<col_str, SubSeq(s, 1, ndig)>>]
    ELSE None

\* MatchCol with the pattern's second (\$?) left out
MatchColNoRowDollar(s, nlet) ==
    IF nlet >= 1
    THEN MatchRow(SubSeq(s, 1, nlet), SubSeq(s, nlet + 1, Len(s)),
                  Run(SubSeq(s, nlet + 1, Len(s)), Len(s), TRUE))
    ELSE None

\* ([A-Z]{1,3})(\$?): col_str is the nlet letters s starts with
MatchCol(s, nlet) ==
    IF nlet >= 1
    THEN MatchRow(SubSeq(s, 1, nlet), SkipDollar(SubSeq(s, nlet + 1, Len(s))),
                  Run(SkipDollar(SubSeq(s, nlet + 1, Len(s))), Len(s), TRUE))
    ELSE None

\* re.compile(r"(\$?)([A-Z]{1,3})(\$?)(\d+)").match(cell_str): the groups 2 and
\* 4 of the match, or None. Every quantifier is greedy, and giving back a
\* character never helps: a "$" is no letter, a letter is neither "$" nor a
\* digit, so the greedy attempt is the only candidate.
ReMatch(cell_str) ==
    MatchCol(SkipDollar(cell_str), Run(SkipDollar(cell_str), ReMaxLetters, FALSE))

\* ColLoop with expn never incremented: every letter weighs 26 ** 0
RECURSIVE ColLoopNoExpn(_, _)
ColLoopNoExpn(col_str, expn) ==
    IF expn = Len(col_str) THEN 0
    ELSE (OrdMinusOrdA(col_str[Len(col_str) - expn]) + 1)
         + ColLoopNoExpn(col_str, expn + 1)

\* the loop over reversed(col_str): col += (ord(char) - ord("A") + 1) * 26 ** expn
RECURSIVE ColLoop(_, _)
ColLoop(col_str, expn) ==
    IF expn = Len(col_str) THEN 0
    ELSE (OrdMinusOrdA(col_str[Len(col_str) - expn]) + 1) * Pow(ColBase, expn)
         + ColLoop(col_str, expn + 1)

\* lines 239-253 for a match
RowColOfMatch(match) ==
    IF match = None THEN Raise("AttributeError")
    ELSE Return(<<int(match.v[2]) - 1, ColLoop(match.v[1], 0) - 1>>)

xl_cell_to_rowcol(cell_str) ==
    IF cell_str = <<>> THEN Return(<<0, 0>>)
    ELSE RowColOfMatch(ReMatch(cell_str))

(***************************************************************************)
(* Inputs: cell reference strings.                                         *)
(***************************************************************************)
ModelLetters == {"A", "B", "Z"}
ModelDigits == {"0", "1", "9"}
SeqsUpTo(S, lo, hi) == UNION {[1..n -> S] : n \in lo..hi}
ColStrs == SeqsUpTo(ModelLetters, 1, MaxColLen)
RowStrs == SeqsUpTo(ModelDigits, 1, MaxDigits)
Dollar == {<<>>, <<"$">>}
\* text after the reference, which match() does not look at
Trailers == {<<>>, <<"x">>}
CellStrs ==
    {d1 \o c \o d2 \o r \o t :
        d1 \in Dollar, c \in ColStrs, d2 \in Dollar, r \in RowStrs, t \in Trailers}
    \cup {<<>>, <<"1">>, <<"A">>, <<"$">>, <<"a", "1">>, <<"A", "$", "$", "1">>}

(***************************************************************************)
(* The calls of xl_cell_to_rowcol.                                         *)
(***************************************************************************)
InitCell ==
    /\ call = NoCall
    /\ ret = None
    /\ sheet = NoSheet
    /\ PoolIdle
    /\ TrackerIdle

CallXlCellToRowcol ==
    /\ call = NoCall
    /\ \E cell_str \in CellStrs :
        /\ call' = [op |-> "xl_cell_to_rowcol", cell_str |-> cell_str]
        /\ ret' = xl_cell_to_rowcol(cell_str)
    /\ UNCHANGED <<sheet, poolvars, trackvars>>

NextCell == CallXlCellToRowcol

SpecCell == InitCell /\ [][NextCell]_vars

(***************************************************************************)
(* Sheet objects.                                                          *)
(*   xlrd:      nrows, ncols, cells[r][c] = [ctype, value], 0-based        *)
(*   pyxlsb:    rows = what sheet.rows() yields, a list of lists of cell.v *)
(*   openpyxl:  cells[<<row, column>>] = [value, number_format], 1-based   *)
(***************************************************************************)
\* xlrd's cell types
XL_CELL_EMPTY == 0
XL_CELL_TEXT == 1
XL_CELL_NUMBER == 2
XL_CELL_DATE == 3
XL_CELL_BOOLEAN == 4
XL_CELL_ERROR == 5
XL_CELL_BLANK == 6

\* xlrd.biffh.error_text_from_code
error_text_from_code ==
    (0 :> "#NULL!") @@ (7 :> "#DIV/0!") @@ (15 :> "#VALUE!") @@ (23 :> "#REF!")
    @@ (29 :> "#NAME?") @@ (36 :> "#NUM!") @@ (42 :> "#N/A")

\* xlrd.xldate.xldate_as_datetime(xldate, datemode) for whole days: the epoch
\* is 1904-01-01 in datemode 1, 1899-12-31 before the serial 60 and 1899-12-30
\* from it on in datemode 0
xldate_as_datetime(xldate, datemode) ==
    IF datemode = 1 THEN PyDatetime(xldate + 1462)
    ELSE IF xldate < 60 THEN PyDatetime(xldate + 1)
    ELSE PyDatetime(xldate)

\* range with the stop included
rangeStopIncluded(a, b) == [i \in 1..(IF b >= a THEN b - a + 1 ELSE 0) |-> a + i - 1]

\* range(a, b) as a list
range(a, b) == [i \in 1..(IF b > a THEN b - a ELSE 0) |-> a + i - 1]

\* PlusOne with the indices left zero-based
PlusOneForgotten(rc) == rc

\* both indices + 1 (lines 62, 65, 113, 116)
PlusOne(rc) == IF rc.k = "raise" THEN rc ELSE Return(<<rc.v[1] + 1, rc.v[2] + 1>>)
\* a corner given as a string: xl_cell_to_rowcol, then both indices + 1
\* (lines 60-65 and 111-116); a tuple is taken as it is
CornerToTuple(cell) ==
    IF cell.k = "tuple" THEN Return(cell.v) ELSE PlusOne(xl_cell_to_rowcol(cell.v))

\* XlrdCellValue without the tests for blank and boolean cells
XlrdCellValueFewerTests(sh, r, c) ==
    IF sh.cells[r][c].ctype = XL_CELL_DATE
    THEN xldate_as_datetime(sh.cells[r][c].value.v, sh.datemode)
    ELSE IF sh.cells[r][c].ctype = XL_CELL_EMPTY
    THEN None
    ELSE IF sh.cells[r][c].ctype = XL_CELL_ERROR
    THEN PyStr(error_text_from_code[sh.cells[r][c].value.v])
    ELSE sh.cells[r][c].value

\* the chain of tests on sheet.cell(r, c).ctype, lines 71-82
XlrdCellValue(sh, r, c) ==
    IF sh.cells[r][c].ctype = XL_CELL_DATE
    THEN xldate_as_datetime(sh.cells[r][c].value.v, sh.datemode)
    ELSE IF sh.cells[r][c].ctype \in {XL_CELL_EMPTY, XL_CELL_BLANK}
    THEN None
    ELSE IF sh.cells[r][c].ctype = XL_CELL_ERROR
    THEN PyStr(error_text_from_code[sh.cells[r][c].value.v])
    ELSE IF sh.cells[r][c].ctype = XL_CELL_BOOLEAN
    THEN PyBool(sh.cells[r][c].value.v # 0)
    ELSE sh.cells[r][c].value

\* the two loops, lines 66-85; sheet.cell(r, c) raises IndexError outside the
\* sheet
XlrdLoops(sh, rows, cols) ==
    IF \E i \in DOMAIN rows, j \in DOMAIN cols :
           ~(rows[i] \in 0..sh.nrows - 1 /\ cols[j] \in 0..sh.ncols - 1)
    THEN Raise("IndexError")
    ELSE Return(PyList([i \in DOMAIN rows |->
                    [j \in DOMAIN cols |-> XlrdCellValue(sh, rows[i], cols[j])]]))

XlrdRange(sh, fc, lc) ==
    IF fc.k = "raise" THEN fc
    ELSE IF lc.k = "raise" THEN lc
    ELSE XlrdLoops(sh, range(fc.v[1] - 1, lc.v[1]), range(fc.v[2] - 1, lc.v[2]))

\* ReadXlrd with a zero-based default for last_cell
ReadXlrdLastZeroBased(sh, first_cell, last_cell) ==
    XlrdRange(sh, CornerToTuple(first_cell),
              CornerToTuple(IF last_cell = None THEN PyTuple(sh.nrows - 1, sh.ncols - 1)
                            ELSE last_cell))

\* read, the xlrd branch, lines 54-85
ReadXlrd(sh, first_cell, last_cell) ==
    XlrdRange(sh, CornerToTuple(first_cell),
              CornerToTuple(IF last_cell = None THEN PyTuple(sh.nrows, sh.ncols)
                            ELSE last_cell))

\* the errors dictionary without the code of #N/A
errorsWithoutNA ==
    ("0x0" :> "#NULL!") @@ ("0x7" :> "#DIV/0!") @@ ("0xf" :> "#VALUE!")
    @@ ("0x17" :> "#REF!") @@ ("0x1d" :> "#NAME?") @@ ("0x24" :> "#NUM!")

\* the errors dictionary, lines 108-110
errors ==
    ("0x0" :> "#NULL!") @@ ("0x7" :> "#DIV/0!") @@ ("0xf" :> "#VALUE!")
    @@ ("0x17" :> "#REF!") @@ ("0x1d" :> "#NAME?") @@ ("0x24" :> "#NUM!")
    @@ ("0x2a" :> "#N/A")

\* errors.get(cell.v, cell.v)
ErrorsGet(v) ==
    IF v.k = "str" /\ v.v \in DOMAIN errors THEN PyStr(errors[v.v]) ELSE v

\* list[start:stop] for stop >= 0 or None (given as -1); a negative start
\* counts from the end of the list
Slice(list, start, stop) ==
    SubSeq(list,
           (IF start >= 0 THEN start ELSE IF Len(list) + start >= 0
                                          THEN Len(list) + start ELSE 0) + 1,
           IF stop = -1 \/ stop > Len(list) THEN Len(list) ELSE stop)

\* lines 119-123 on the rows islice yields
PyxlsbData(rows, start, stop) ==
    [i \in DOMAIN rows |->
        Slice([j \in DOMAIN rows[i] |-> ErrorsGet(rows[i][j])], start, stop)]

\* itertools.islice raises ValueError for a negative start
PyxlsbRange(sh, fc, lc) ==
    IF fc.k = "raise" THEN fc
    ELSE IF lc.k = "raise" THEN lc
    ELSE IF fc.v[1] - 1 < 0 THEN Raise("ValueError")
    ELSE Return(PyList(PyxlsbData(Slice(sh.rows, fc.v[1] - 1, lc.v[1]),
                                  fc.v[2] - 1, lc.v[2])))

\* read, the pyxlsb branch, lines 107-124
ReadPyxlsb(sh, first_cell, last_cell) ==
    PyxlsbRange(sh, CornerToTuple(first_cell),
                IF last_cell = None THEN Return(<<-1, -1>>)
                ELSE CornerToTuple(last_cell))

\* openpyxl's table of the column strings "A".."ZZZ" and their numbers
RECURSIVE COL_STRING_CACHE(_)
COL_STRING_CACHE(col) ==
    IF col = <<>> THEN 0
    ELSE ColBase * COL_STRING_CACHE(SubSeq(col, 1, Len(col) - 1))
         + OrdMinusOrdA(col[Len(col)]) + 1

\* int(row), _COL_STRING_CACHE[col]
CoordinateParts(col, row) ==
    IF row = <<>> \/ \E j \in DOMAIN row : ~IsDigit(row[j])
    THEN Raise("ValueError")
    ELSE IF ~(Len(col) \in 1..ReMaxLetters /\ \A j \in DOMAIN col : IsUpper(col[j]))
    THEN Raise("KeyError")
    ELSE Return(<<int(row), COL_STRING_CACHE(col)>>)

SplitAt(coordinate, idx) ==
    CoordinateParts(SubSeq(coordinate, 1, idx),
                    SubSeq(coordinate, idx + 1, Len(coordinate)))

\* openpyxl.utils.cell.coordinate_to_tuple for a coordinate without "$": the
\* text before the first digit is the column, the rest is the row
coordinate_to_tuple(coordinate) ==
    SplitAt(coordinate,
            Cardinality({i \in DOMAIN coordinate :
                            \A j \in 1..i : ~IsDigit(coordinate[j])}))

\* sheet.max_row and sheet.max_column: 1 for a sheet without cells
MaxOf(S) == IF S = {} THEN 1 ELSE CHOOSE m \in S : \A x \in S : x <= m
max_row(sh) == MaxOf({p[1] : p \in DOMAIN sh.cells})
max_column(sh) == MaxOf({p[2] : p \in DOMAIN sh.cells})

\* lines 95-98 for one corner
OpenpyxlCorner(cell) ==
    IF cell.k = "tuple" THEN Return(cell.v) ELSE coordinate_to_tuple(cell.v)
\* lines 92-94
OpenpyxlLast(sh, last_cell) ==
    IF last_cell = None THEN PyTuple(max_row(sh), max_column(sh)) ELSE last_cell

\* iter_rows(values_only=True) yields the values of the rows min_row..max_row,
\* columns min_col..max_col, None for a cell the sheet does not hold
IterRows(sh, rows, cols) ==
    [i \in DOMAIN rows |->
        [j \in DOMAIN cols |->
            IF <<rows[i], cols[j]>> \in DOMAIN sh.cells
            THEN sh.cells[<<rows[i], cols[j]>>].value
            ELSE None]]

OpenpyxlRange(sh, fc, lc) ==
    IF fc.k = "raise" THEN fc
    ELSE IF lc.k = "raise" THEN lc
    ELSE Return(PyList(IterRows(sh, range(fc.v[1], lc.v[1] + 1),
                                range(fc.v[2], lc.v[2] + 1))))

\* read, the openpyxl branch, lines 88-104
ReadOpenpyxl(sh, first_cell, last_cell) ==
    OpenpyxlRange(sh, OpenpyxlCorner(first_cell),
                  OpenpyxlCorner(OpenpyxlLast(sh, last_cell)))

\* iter_rows on a Worksheet (not on a ReadOnlyWorksheet) goes through
\* sheet.cell(), which adds every cell of the range the sheet does not hold yet
EmptyCell == [value |-> None, number_format |-> "General"]
WithCells(sh, rng) ==
    [sh EXCEPT !.cells =
        [p \in DOMAIN sh.cells \cup rng |->
            IF p \in DOMAIN sh.cells THEN sh.cells[p] ELSE EmptyCell]]
TouchRange(sh, fc, lc) ==
    IF fc.k = "raise" \/ lc.k = "raise" THEN sh
    ELSE WithCells(sh, (fc.v[1]..lc.v[1]) \X (fc.v[2]..lc.v[2]))
AfterIterRows(sh, first_cell, last_cell) ==
    IF sh.kind # "openpyxl" THEN sh
    ELSE TouchRange(sh, OpenpyxlCorner(first_cell),
                    OpenpyxlCorner(OpenpyxlLast(sh, last_cell)))

\* read, lines 32-126: the dispatch on the type of sheet
read(sh, first_cell, last_cell) ==
    IF sh.kind = "xlrd" THEN ReadXlrd(sh, first_cell, last_cell)
    ELSE IF sh.kind \in {"openpyxl", "openpyxl_ro"}
    THEN ReadOpenpyxl(sh, first_cell, last_cell)
    ELSE IF sh.kind = "pyxlsb" THEN ReadPyxlsb(sh, first_cell, last_cell)
    ELSE Raise("TypeError")

(***************************************************************************)
(* write, lines 129-193. It returns nothing; WriteResult is the sheet      *)
(* after the call and how the call ended.                                  *)
(*   xlsxwriter: table[<<row, col>>] = value, 0-based                      *)
(*   xlwt:       cells[<<row, col>>] = [value, style], 0-based             *)
(***************************************************************************)
WriteResult(sh, r) == [sheet |-> sh, ret |-> r]

\* isinstance(value, (dt.datetime, dt.date))
IsDateValue(value) == value.k \in {"date", "datetime"}

\* the (i, j) of enumerate(values) and enumerate(row), 0-based
Indices(values) ==
    {ij \in (0..Len(values) - 1) \X (0..MaxOf({Len(values[n]) : n \in DOMAIN values}) - 1) :
        ij[2] < Len(values[ij[1] + 1])}

\* the cell of values[i][j]: first_cell[0] + i, first_cell[1] + j
Target(fc, ij) == <<fc[1] + ij[1], fc[2] + ij[2]>>
Targets(fc, ijs) == {Target(fc, ij) : ij \in ijs}
\* the value that goes to the cell p
ValueFor(values, fc, p) ==
    LET ij == CHOOSE x \in Indices(values) : Target(fc, x) = p
    IN  values[ij[1] + 1][ij[2] + 1]

\* openpyxl.styles.numbers.is_date_format, on the formats of the model
IsDateFormat(fmt) ==
    fmt \in {"mm/dd/yy", "dd.mm.yyyy", "yyyy-mm-dd", "yyyy-mm-dd h:mm:ss"}
\* openpyxl's cell.value = value: a date or datetime in a cell whose number
\* format is no date format gives the cell the ISO format of its type
BindValue(cell, value) ==
    [value |-> value,
     number_format |->
        IF IsDateValue(value) /\ ~IsDateFormat(cell.number_format)
        THEN (IF value.k = "datetime" THEN "yyyy-mm-dd h:mm:ss" ELSE "yyyy-mm-dd")
        ELSE cell.number_format]

\* SetNumberFormat without the test of the value's type
SetNumberFormatAlways(cell, date_format) ==
    IF date_format # "" THEN [cell EXCEPT !.number_format = date_format] ELSE cell

\* lines 161-162 on the cell whose value was set
SetNumberFormat(cell, date_format) ==
    IF date_format # "" /\ IsDateValue(cell.value)
    THEN [cell EXCEPT !.number_format = date_format]
    ELSE cell

\* sheet.cell(row=..., column=...): the cell, added when the sheet lacks it
CellOf(sh, p) == IF p \in DOMAIN sh.cells THEN sh.cells[p] ELSE EmptyCell

\* the two loops, lines 156-162
OpenpyxlLoops(sh, values, fc, date_format) ==
    IF fc.k = "raise" THEN WriteResult(sh, fc)
    ELSE WriteResult(
        [sh EXCEPT !.cells =
            [p \in DOMAIN sh.cells \cup Targets(fc.v, Indices(values)) |->
                IF p \in Targets(fc.v, Indices(values))
                THEN SetNumberFormat(
                        BindValue(CellOf(sh, p), ValueFor(values, fc.v, p)),
                        date_format)
                ELSE sh.cells[p]]],
        Return(None))

\* lines 152-153 and 177-178
DefaultDateFormat(date_format) ==
    IF date_format = None THEN "mm/dd/yy" ELSE date_format.v

\* write, the openpyxl branch, lines 150-162
WriteOpenpyxl(sh, values, first_cell, date_format) ==
    OpenpyxlLoops(sh, values, OpenpyxlCorner(first_cell),
                  DefaultDateFormat(date_format))

\* ZeroBasedCorner with the tuple taken as it is
ZeroBasedCornerTupleKept(first_cell) ==
    IF first_cell.k = "tuple" THEN Return(first_cell.v)
    ELSE xl_cell_to_rowcol(first_cell.v)

\* a tuple gets both indices - 1, a string is converted by xl_cell_to_rowcol
\* (lines 168-171 and 180-183)
ZeroBasedCorner(first_cell) ==
    IF first_cell.k = "tuple"
    THEN Return(<<first_cell.v[1] - 1, first_cell.v[2] - 1>>)
    ELSE xl_cell_to_rowcol(first_cell.v)

\* lines 172-173: write_row(row, col, data) writes data[n] to (row, col + n)
WriteRows(sh, values, fc) ==
    IF fc.k = "raise" THEN WriteResult(sh, fc)
    ELSE WriteResult(
        [sh EXCEPT !.table =
            [p \in DOMAIN sh.table \cup Targets(fc.v, Indices(values)) |->
                IF p \in Targets(fc.v, Indices(values))
                THEN ValueFor(values, fc.v, p)
                ELSE sh.table[p]]],
        Return(None))

\* WriteXlsxwriter without the test of date_format
WriteXlsxwriterNoTest(sh, values, first_cell, date_format) ==
    WriteRows(sh, values, ZeroBasedCorner(first_cell))

\* write, the xlsxwriter branch, lines 165-173
WriteXlsxwriter(sh, values, first_cell, date_format) ==
    IF date_format # None THEN WriteResult(sh, Raise("ValueError"))
    ELSE WriteRows(sh, values, ZeroBasedCorner(first_cell))

\* row-major order of the (i, j)
Before(a, b) == a[1] < b[1] \/ (a[1] = b[1] /\ a[2] < b[2])
\* sheet.write raises on a cell that is written already unless the sheet was
\* added with cell_overwrite_ok=True
Clashes(sh, fc, ijs) ==
    {ij \in ijs : ~sh.cell_overwrite_ok /\ Target(fc, ij) \in DOMAIN sh.cells}
\* the (i, j) the loops reach without raising
Reached(ijs, clashes) == {ij \in ijs : \A x \in clashes : Before(ij, x)}

\* lines 186-191 for one value: the style is date_format for a date
XlwtCell(value, date_format) ==
    [value |-> value,
     style |-> IF IsDateValue(value) THEN date_format ELSE "default"]

\* the two loops, lines 184-191; the cells before a clash are written
XlwtLoops(sh, values, fc, date_format, clashes) ==
    WriteResult(
        [sh EXCEPT !.cells =
            [p \in DOMAIN sh.cells \cup Targets(fc, Reached(Indices(values), clashes)) |->
                IF p \in Targets(fc, Reached(Indices(values), clashes))
                THEN XlwtCell(ValueFor(values, fc, p), date_format)
                ELSE sh.cells[p]]],
        IF clashes = {} THEN Return(None) ELSE Raise("Exception"))

XlwtCorner(sh, values, fc, date_format) ==
    IF fc.k = "raise" THEN WriteResult(sh, fc)
    ELSE XlwtLoops(sh, values, fc.v, date_format,
                   Clashes(sh, fc.v, Indices(values)))

\* write, the xlwt branch, lines 176-191
WriteXlwt(sh, values, first_cell, date_format) ==
    XlwtCorner(sh, values, ZeroBasedCorner(first_cell),
               DefaultDateFormat(date_format))

\* write without the final else: an unknown object is skipped silently
writeNoElse(sh, values, first_cell, date_format) ==
    IF sh.kind = "openpyxl" THEN WriteOpenpyxl(sh, values, first_cell, date_format)
    ELSE IF sh.kind = "xlsxwriter"
    THEN WriteXlsxwriter(sh, values, first_cell, date_format)
    ELSE IF sh.kind = "xlwt" THEN WriteXlwt(sh, values, first_cell, date_format)
    ELSE WriteResult(sh, Return(None))

\* write, lines 129-193: the dispatch on the type of sheet
write(sh, values, first_cell, date_format) ==
    IF sh.kind = "openpyxl" THEN WriteOpenpyxl(sh, values, first_cell, date_format)
    ELSE IF sh.kind = "xlsxwriter"
    THEN WriteXlsxwriter(sh, values, first_cell, date_format)
    ELSE IF sh.kind = "xlwt" THEN WriteXlwt(sh, values, first_cell, date_format)
    ELSE WriteResult(sh, Raise("TypeError"))

(***************************************************************************)
(* Inputs: the sheets handed to read and write.                            *)
(***************************************************************************)
Dims == {<<0, 0>>} \cup ((1..MaxRows) \X (1..MaxCols))
Pick(palette, n) == palette[(n % Len(palette)) + 1]
\* the sheets of a palette start at every third entry of it
Offsets(palette) == {o \in 0..Len(palette) - 1 : o % 3 = 0}

XlrdPalette ==
    << [ctype |-> XL_CELL_DATE, value |-> PyFloat(59)],
       [ctype |-> XL_CELL_BLANK, value |-> PyStr("")],
       [ctype |-> XL_CELL_ERROR, value |-> PyInt(7)],
       [ctype |-> XL_CELL_BOOLEAN, value |-> PyInt(1)],
       [ctype |-> XL_CELL_TEXT, value |-> PyStr("a")],
       [ctype |-> XL_CELL_NUMBER, value |-> PyFloat(3)],
       [ctype |-> XL_CELL_EMPTY, value |-> PyStr("")],
       [ctype |-> XL_CELL_DATE, value |-> PyFloat(61)],
       [ctype |-> XL_CELL_ERROR, value |-> PyInt(42)],
       [ctype |-> XL_CELL_BOOLEAN, value |-> PyInt(0)],
       [ctype |-> XL_CELL_NUMBER, value |-> PyFloat(1)] >>
XlrdSheets ==
    {[kind |-> "xlrd", nrows |-> d[1], ncols |-> d[2], datemode |-> dm,
      cells |-> [r \in 0..d[1] - 1 |->
                    [c \in 0..d[2] - 1 |-> Pick(XlrdPalette, r * d[2] + c + o)]]] :
        d \in Dims, o \in Offsets(XlrdPalette), dm \in {0, 1}}

PyxlsbPalette ==
    << PyFloat(1), PyStr("0x7"), PyStr("a"), None, PyStr("0x2a"), PyBool(TRUE),
       PyStr("0x0"), PyStr("0xf"), PyFloat(2), PyStr("0x17"), PyStr("0x1d"),
       PyStr("0x24"), PyStr("0x2b") >>
PyxlsbSheets ==
    {[kind |-> "pyxlsb",
      rows |-> [r \in 1..d[1] |->
                   [c \in 1..d[2] |-> Pick(PyxlsbPalette, (r - 1) * d[2] + c - 1 + o)]]] :
        d \in Dims, o \in Offsets(PyxlsbPalette)}

OpenpyxlPalette ==
    << [value |-> PyInt(1), number_format |-> "General"],
       [value |-> PyStr("a"), number_format |-> "General"],
       [value |-> PyDatetime(61), number_format |-> "dd.mm.yyyy"],
       [value |-> None, number_format |-> "General"],
       [value |-> PyFloat(2), number_format |-> "0.00"],
       [value |-> PyBool(TRUE), number_format |-> "General"] >>
\* full used ranges, and sheets that hold only the bottom-right cell of theirs
OpenpyxlCellMaps ==
    {[p \in (1..d[1]) \X (1..d[2]) |->
         Pick(OpenpyxlPalette, (p[1] - 1) * d[2] + p[2] - 1 + o)] :
        d \in Dims, o \in Offsets(OpenpyxlPalette)}
    \cup {[p \in {d} |-> Pick(OpenpyxlPalette, o)] :
        d \in (1..MaxRows) \X (1..MaxCols), o \in {0, 2}}
OpenpyxlSheets ==
    {[kind |-> kd, cells |-> m] : kd \in {"openpyxl", "openpyxl_ro"}, m \in OpenpyxlCellMaps}

\* sheets of the two libraries that only write: new, or written to before
XlsxwriterSheets ==
    {[kind |-> "xlsxwriter", table |-> t] :
        t \in {[p \in {} |-> None], [p \in {<<0, 0>>} |-> PyStr("a")],
               [p \in {<<1, 1>>} |-> PyInt(1)]}}
XlwtSheets ==
    {[kind |-> "xlwt", cell_overwrite_ok |-> ok, cells |-> t] :
        ok \in BOOLEAN,
        t \in {[p \in {} |-> None],
               [p \in {<<1, 1>>} |-> [value |-> PyStr("a"), style |-> "default"]]}}
\* objects of no sheet type
OtherObjects == {[kind |-> "DataFrame"], [kind |-> "str"]}

Sheets ==
    XlrdSheets \cup PyxlsbSheets \cup OpenpyxlSheets \cup XlsxwriterSheets
    \cup XlwtSheets \cup OtherObjects

(***************************************************************************)
(* Inputs: the corners and the values.                                     *)
(***************************************************************************)
Coords == (1..MaxRows + 1) \X (1..MaxCols + 1)
A1(p) == <<Alphabet[p[2]], DigitChars[p[1] + 1]>>
AbsA1(p) == <<"$", Alphabet[p[2]], "$", DigitChars[p[1] + 1]>>
\* corners as tuples, as references and as absolute references; openpyxl's
\* coordinate_to_tuple is handed references without "$" only
CornersFor(sh) ==
    {PyTuple(p[1], p[2]) : p \in Coords} \cup {PyStr(A1(p)) : p \in Coords}
    \cup (IF sh.kind \in {"openpyxl", "openpyxl_ro"} THEN {}
          ELSE {PyStr(AbsA1(p)) : p \in Coords})
DefaultFirstCell == PyStr(<<"A", "1">>)

WritePalette == <<PyInt(1), PyDate(44000), PyStr("a"), PyDatetime(44001), PyBool(TRUE)>>
Shapes == {<<>>, <<0>>, <<1>>, <<2>>, <<1, 1>>, <<2, 2>>, <<1, 2>>, <<2, 0>>}
\* 2-dimensional lists, rows of different lengths among them
ValueLists ==
    {[i \in DOMAIN shape |->
         [j \in 1..shape[i] |-> Pick(WritePalette, 2 * (i - 1) + j - 1 + o)]] :
        shape \in Shapes, o \in {0, 1, 3}}
FirstCellsFor(sh) ==
    {c \in CornersFor(sh) :
        LET t == IF c.k = "tuple" THEN c.v ELSE <<DigitValue(c.v[Len(c.v)]), 1>>
        IN  t[1] <= MaxRows /\ (c.k = "tuple" => t[2] <= MaxCols)}
DateFormats == {None, PyStr(""), PyStr("dd.mm.yyyy")}

(***************************************************************************)
(* The calls of read and write: one call on a sheet object.                *)
(***************************************************************************)
Init ==
    /\ call = NoCall
    /\ ret = None
    /\ sheet \in Sheets
    /\ PoolIdle
    /\ TrackerIdle

\* what a call of write leaves: the sheet and the outcome
Returns(w) == ret' = w.ret /\ sheet' = w.sheet

CallRead ==
    /\ call = NoCall
    /\ \E first_cell \in CornersFor(sheet), last_cell \in CornersFor(sheet) \cup {None} :
        /\ call' = [op |-> "read", sheet |-> sheet,
                    first_cell |-> first_cell, last_cell |-> last_cell]
        /\ ret' = read(sheet, first_cell, last_cell)
        /\ sheet' = AfterIterRows(sheet, first_cell, last_cell)
        /\ UNCHANGED <<poolvars, trackvars>>

CallWrite ==
    /\ call = NoCall
    /\ \E values \in ValueLists, first_cell \in FirstCellsFor(sheet),
          date_format \in DateFormats :
        /\ call' = [op |-> "write", sheet |-> sheet, values |-> values,
                    first_cell |-> first_cell, date_format |-> date_format]
        /\ Returns(write(sheet, values, first_cell, date_format))
        /\ UNCHANGED <<poolvars, trackvars>>

Next == CallRead \/ CallWrite

Spec == Init /\ [][Next]_vars

(***************************************************************************)
(* The parallel loaders (src/parallel_openpyxl.py, src/parallel_xlrd.py,   *)
(* src/parallel_pandas.py): a workbook file, one task per requested sheet, *)
(* handed to a multiprocessing.Pool by starmap.                            *)
(*   book.sheets: the sheets of the file in workbook order, each with its  *)
(*                name (xlrd) or title (openpyxl)                          *)
(***************************************************************************)
PyDict(items) == [k |-> "dict", v |-> items]
PyDataFrame(rows) == [k |-> "DataFrame", v |-> rows]
PyNames(names) == [k |-> "list", v |-> names]

\* name of an xlrd sheet, title of an openpyxl sheet
SheetName(sh) == IF sh.kind = "xlrd" THEN sh.name ELSE sh.title
\* book.sheet_names() and book.sheetnames
sheet_names(bk) == [i \in DOMAIN bk.sheets |-> SheetName(bk.sheets[i])]

\* the exception of a lookup of a sheet the file does not have:
\* book.sheet_by_name, book[sheetname], pd.read_excel(sheet_name=...)
NoSuchSheet(loader) ==
    IF loader = "open_workbook" THEN Raise("XLRDError")
    ELSE IF loader = "load_workbook" THEN Raise("KeyError")
    ELSE Raise("ValueError")

\* the sheet with the name looked up
SheetByName(bk, loader, sheetname) ==
    IF \E i \in DOMAIN bk.sheets : SheetName(bk.sheets[i]) = sheetname
    THEN Return(bk.sheets[CHOOSE i \in DOMAIN bk.sheets :
                              SheetName(bk.sheets[i]) = sheetname])
    ELSE NoSuchSheet(loader)

\* pd.read_excel(filename, sheet_name=..., engine='openpyxl'): the frame
\* parsed from the rows of the sheet
FrameOf(data) ==
    IF data.k = "raise" THEN data ELSE Return(PyDataFrame(data.v.v))

\* the tuple the worker function returns for the sheet it found
ReadFound(loader, sheetname, sh) ==
    IF loader = "read_excel"
    THEN (IF FrameOf(read(sh, DefaultFirstCell, None)).k = "raise"
          THEN FrameOf(read(sh, DefaultFirstCell, None))
          ELSE Return(PyTuple(sheetname, FrameOf(read(sh, DefaultFirstCell, None)).v)))
    ELSE (IF read(sh, DefaultFirstCell, None).k = "raise"
          THEN read(sh, DefaultFirstCell, None)
          ELSE Return(PyTuple(SheetName(sh), read(sh, DefaultFirstCell, None).v)))

ReadLookedUp(loader, sheetname, found) ==
    IF found.k = "raise" THEN found ELSE ReadFound(loader, sheetname, found.v)

\* _read_sheet reading the first sheet of the file, whatever the name
ReadSheetFirstOfBook(bk, loader, sheetname) ==
    ReadLookedUp(loader, sheetname, Return(bk.sheets[1]))

\* _read_sheet of the three modules: opens the file, looks the sheet up by its
\* name, reads it and returns (name, data)
_read_sheet(bk, loader, sheetname) ==
    ReadLookedUp(loader, sheetname, SheetByName(bk, loader, sheetname))

\* Pool.map_async: the chunk size is len(iterable) divided by four times the
\* number of processes, rounded up; 0 for an empty iterable
PoolChunkFactor == 4
ChunkSize(len, processes) ==
    IF len = 0 THEN 0
    ELSE (len \div (processes * PoolChunkFactor))
         + (IF len % (processes * PoolChunkFactor) = 0 THEN 0 ELSE 1)
\* the number of chunks, MapResult._number_left
NumberOfChunks(len, chunksize) ==
    IF chunksize = 0 THEN 0
    ELSE (len \div chunksize) + (IF len % chunksize = 0 THEN 0 ELSE 1)
MinOf(a, b) == IF a < b THEN a ELSE b
\* Pool._get_tasks: task i holds the arguments i*chunksize .. (i+1)*chunksize - 1
GetTasks(names, chunksize) ==
    [c \in 1..NumberOfChunks(Len(names), chunksize) |->
        [i |-> c - 1,
         batch |-> SubSeq(names, (c - 1) * chunksize + 1,
                          MinOf(c * chunksize, Len(names)))]]
NoTask == [i |-> -1, batch |-> <<>>]

\* the MapResult of a starmap call over len arguments
MapResult(len, chunksize) ==
    [value |-> [n \in 1..len |-> None],
     number_left |-> NumberOfChunks(len, chunksize),
     success |-> TRUE, error |-> "", chunksize |-> chunksize]

\* the outcome of a task from the outcomes of its calls: the list of the
\* results, or the first exception raised
TaskOutcome(i, outcomes) ==
    IF \E n \in DOMAIN outcomes : outcomes[n].k = "raise"
    THEN [i |-> i, success |-> FALSE, value |-> <<>>,
          error |-> outcomes[CHOOSE n \in DOMAIN outcomes :
                        /\ outcomes[n].k = "raise"
                        /\ \A m \in 1..n - 1 : outcomes[m].k # "raise"].v]
    ELSE [i |-> i, success |-> TRUE,
          value |-> [n \in DOMAIN outcomes |-> outcomes[n].v], error |-> ""]
\* starmapstar: the worker calls _read_sheet on each argument of the task
mapstar(bk, loader, task) ==
    TaskOutcome(task.i, [n \in DOMAIN task.batch |->
                            _read_sheet(bk, loader, task.batch[n])])

\* MapResult._set(i, (success, value)): a list of results goes to its slice
\* of the value, the first exception is kept, and every task is counted
SetValue(res, item) ==
    IF item.success /\ res.success
    THEN [n \in DOMAIN res.value |->
             IF n - item.i * res.chunksize \in DOMAIN item.value
             THEN item.value[n - item.i * res.chunksize]
             ELSE res.value[n]]
    ELSE res.value
MapResultSet(res, item) ==
    [value |-> SetValue(res, item),
     number_left |-> res.number_left - 1,
     success |-> res.success /\ item.success,
     error |-> IF res.success /\ ~item.success THEN item.error ELSE res.error,
     chunksize |-> res.chunksize]
\* MapResult.ready(): the event is set when no task is left
Ready(res) == res.number_left = 0

\* {i[0]: i[1] for i in data}: a later item replaces an earlier one of its key
DictOf(data) ==
    PyDict([key \in {data[n].v[1] : n \in DOMAIN data} |->
               data[CHOOSE n \in DOMAIN data :
                       /\ data[n].v[1] = key
                       /\ \A m \in DOMAIN data : data[m].v[1] = key => m <= n].v[2]])
\* a loader that returns the dictionary of the results it has got
LoaderOutcomePartial(res) ==
    Return(DictOf(SelectSeq(res.value, LAMBDA item : item # None)))
\* MapResult.get() and the return statement of the loader
LoaderOutcome(res) ==
    IF res.success THEN Return(DictOf(res.value)) ELSE Raise(res.error)

(***************************************************************************)
(* Inputs: the workbook files and the sheet names that are requested.      *)
(***************************************************************************)
SheetTitles == <<"Sheet1", "Sheet2", "Sheet3", "Sheet4", "Sheet5", "Sheet6">>
\* sheet n of a file: one row, its first cell holds n
XlrdBookSheet(n) ==
    [kind |-> "xlrd", name |-> SheetTitles[n], nrows |-> 1, ncols |-> 2, datemode |-> 0,
     cells |-> [r \in {0} |->
                   [c \in 0..1 |->
                       IF c = 0 THEN [ctype |-> XL_CELL_NUMBER, value |-> PyFloat(n)]
                       ELSE Pick(XlrdPalette, n)]]]
OpenpyxlBookSheet(n) ==
    [kind |-> "openpyxl_ro", title |-> SheetTitles[n],
     cells |-> [p \in {<<1, 1>>, <<1, 2>>} |->
                   IF p[2] = 1 THEN [value |-> PyInt(n), number_format |-> "General"]
                   ELSE Pick(OpenpyxlPalette, n)]]
Books ==
    {[kind |-> "xlrd", sheets |-> [n \in 1..cnt |-> XlrdBookSheet(n)]] :
        cnt \in 1..MaxSheets}
    \cup {[kind |-> "openpyxl", sheets |-> [n \in 1..cnt |-> OpenpyxlBookSheet(n)]] :
        cnt \in 1..MaxSheets}
LoadersFor(bk) ==
    IF bk.kind = "xlrd" THEN {"open_workbook"} ELSE {"load_workbook", "read_excel"}
\* the names asked for: "Sheet1" and "Sheet2", which every file with two
\* sheets has, and a name no file has
AskedNames == <<"Sheet1", "Sheet2", "Other">>
\* every list of at most two names, and longer lists that go through the names
\* in turn
Requests ==
    {<<>>} \cup {<<a>> : a \in {"Sheet1", "Sheet2", "Other"}}
    \cup {<<a, b>> : a \in {"Sheet1", "Sheet2", "Other"}, b \in {"Sheet1", "Sheet2", "Other"}}
    \cup {[n \in 1..len |-> AskedNames[((n + o) % m) + 1]] :
            len \in 3..MaxRequested, o \in {0, 1}, m \in {2, 3}}

(***************************************************************************)
(* A call of a parallel loader.                                            *)
(***************************************************************************)
InitPool ==
    /\ call = NoCall
    /\ ret = None
    /\ sheet = NoSheet
    /\ book \in Books
    /\ pc = "idle"
    /\ pool_state = "none"
    /\ workers = <<>>
    /\ taskqueue = <<>>
    /\ outqueue = <<>>
    /\ result = NoResult
    /\ TrackerIdle

\* the names of the tasks: all names of the file when none are given
Requested(bk, sheetnames) ==
    IF sheetnames = None THEN sheet_names(bk) ELSE sheetnames.v

\* Pool(processes) and pool.starmap up to the wait for the result
Starmap(names, processes) ==
    /\ pool_state' = "RUN"
    /\ workers' = [w \in 1..processes |-> NoTask]
    /\ taskqueue' = GetTasks(names, ChunkSize(Len(names), processes))
    /\ outqueue' = <<>>
    /\ result' = MapResult(Len(names), ChunkSize(Len(names), processes))
    /\ pc' = "starmap"

\* load_workbook, open_workbook, read_excel up to pool.starmap; the pool has
\* as many processes as the machine has cores
CallLoader ==
    /\ call = NoCall
    /\ pc = "idle"
    /\ \E loader \in LoadersFor(book),
          sheetnames \in {PyNames(r) : r \in Requests} \cup {None},
          processes \in 1..MaxWorkers :
        /\ call' = [op |-> loader, sheetnames |-> sheetnames, processes |-> processes]
        /\ Starmap(Requested(book, sheetnames), processes)
    /\ UNCHANGED <<ret, sheet, book, trackvars>>

\* a worker process takes the next task from the queue
WorkerGet ==
    /\ pool_state = "RUN"
    /\ taskqueue # <<>>
    /\ \E w \in DOMAIN workers :
        /\ workers[w] = NoTask
        /\ workers' = [workers EXCEPT ![w] = Head(taskqueue)]
    /\ taskqueue' = Tail(taskqueue)
    /\ UNCHANGED <<call, ret, sheet, book, pc, pool_state, outqueue, result, trackvars>>

\* a worker process has run its task and puts the outcome on the queue
WorkerPut ==
    /\ pool_state = "RUN"
    /\ \E w \in DOMAIN workers :
        /\ workers[w] # NoTask
        /\ outqueue' = Append(outqueue, mapstar(book, call.op, workers[w]))
        /\ workers' = [workers EXCEPT ![w] = NoTask]
    /\ UNCHANGED <<call, ret, sheet, book, pc, pool_state, taskqueue, result, trackvars>>

\* the result handler thread of the pool takes an outcome from the queue
HandleResult ==
    /\ pool_state = "RUN"
    /\ outqueue # <<>>
    /\ result' = MapResultSet(result, Head(outqueue))
    /\ outqueue' = Tail(outqueue)
    /\ UNCHANGED <<call, ret, sheet, book, pc, pool_state, workers, taskqueue, trackvars>>

\* starmap returns or raises, the with statement terminates the pool, and
\* the loader returns the dictionary
LoaderReturns ==
    /\ pc = "starmap"
    /\ Ready(result)
    /\ ret' = LoaderOutcome(result)
    /\ pool_state' = "TERMINATE"
    /\ pc' = "done"
    /\ UNCHANGED <<call, sheet, book, workers, taskqueue, outqueue, result, trackvars>>

NextPool == CallLoader \/ WorkerGet \/ WorkerPut \/ HandleResult \/ LoaderReturns

SpecPool == InitPool /\ [][NextPool]_vars

(***************************************************************************)
(* The database module (src/packagetracker/database.py).                   *)
(*   packages:         the rows [package_id, package_name] in rowid order  *)
(*   package_versions: the rows [package_id, version_string, uploaded_at]  *)
(*                     in rowid order; a column value is a Python value,   *)
(*                     None for NULL                                       *)
(* Statements are committed as they are executed (the connection commits   *)
(* INSERT and DELETE on its own); DataFrame.to_sql inserts the rows of a   *)
(* frame in one transaction.                                               *)
(***************************************************************************)
\* str() of a value inside an f-string
Str(x) == IF x = None THEN "None" ELSE x.v
PackageIds(pk) == {pk[i].package_id : i \in DOMAIN pk}
PackageNames(pk) == {pk[i].package_name : i \in DOMAIN pk}

\* set_sqlite_pragma: PRAGMA foreign_keys=ON on every new connection
foreign_keys == TRUE

\* CREATE TABLE packages: package_name TEXT NOT NULL, UNIQUE(package_name);
\* whether the INSERT of the name breaks a constraint
PackagesViolation(pk, package_name) ==
    \/ package_name = None
    \/ package_name.v \in PackageNames(pk)
\* package_id INTEGER PRIMARY KEY: the largest rowid of the table plus one
NextPackageId(pk) == MaxOf({0} \cup PackageIds(pk)) + 1
\* INSERT INTO packages (package_name) VALUES (:package_name)
InsertPackage(pk, package_name) ==
    Append(pk, [package_id |-> NextPackageId(pk), package_name |-> package_name.v])

\* repr(e) of an exception that is no IntegrityError
ReprOperationalError ==
    "OperationalError('(sqlite3.OperationalError) database is locked')"
StorePackageResult(pk, r) == [packages |-> pk, ret |-> r]
\* store_package; fault: the database raises an exception that
\* is no IntegrityError
store_package(pk, package_name, fault) ==
    IF fault THEN StorePackageResult(pk, Return(PyStr(ReprOperationalError)))
    ELSE IF PackagesViolation(pk, package_name)
    THEN StorePackageResult(pk, Return(PyStr(Str(package_name) \o " already exists")))
    ELSE StorePackageResult(InsertPackage(pk, package_name), Return(None))

\* CREATE TABLE package_versions: uploaded_at NOT NULL, PRIMARY KEY
\* (package_id, version_string), FOREIGN KEY (package_id) REFERENCES packages.
\* SQLite lets a column of such a primary key be NULL, a row with a NULL in
\* the key equals no other row, and a NULL package_id references nothing
SameKey(a, b) ==
    /\ a.package_id # None
    /\ a.version_string # None
    /\ a.package_id = b.package_id
    /\ a.version_string = b.version_string
VersionsViolation(pk, pv, row) ==
    \/ row.uploaded_at = None
    \/ \E i \in DOMAIN pv : SameKey(row, pv[i])
    \/ /\ foreign_keys
       /\ row.package_id # None
       /\ row.package_id.v \notin PackageIds(pk)
\* the INSERTs of to_sql, row after row: the table with the rows added, or
\* the IntegrityError of the first row that breaks a constraint
RECURSIVE InsertRows(_, _, _)
InsertRows(pk, pv, rows) ==
    IF rows = <<>> THEN Return(pv)
    ELSE IF VersionsViolation(pk, pv, Head(rows)) THEN Raise("IntegrityError")
    ELSE InsertRows(pk, Append(pv, Head(rows)), Tail(rows))
StoreVersionsResult(pv, r) == [package_versions |-> pv, ret |-> r]
\* the transaction of to_sql is committed, or rolled back when an INSERT raises
Transaction(pv, inserted) ==
    IF inserted.k = "raise" THEN StoreVersionsResult(pv, inserted)
    ELSE StoreVersionsResult(inserted.v, Return(None))
\* store_versions whose failing statement leaves the rows of the frame behind
store_versionsNoRollback(pk, pv, df, fault) ==
    IF fault THEN StoreVersionsResult(pv \o df, Raise("OperationalError"))
    ELSE Transaction(pv, InsertRows(pk, pv, df))
\* store_versions, lines 66-69
store_versions(pk, pv, df, fault) ==
    IF fault THEN StoreVersionsResult(pv, Raise("OperationalError"))
    ELSE Transaction(pv, InsertRows(pk, pv, df))

\* delete_versions that leaves the rows in the table
delete_versionsKeepsRows(pv, fault) ==
    IF fault THEN StoreVersionsResult(pv, Raise("OperationalError"))
    ELSE StoreVersionsResult(pv, Return(None))
\* delete_versions, lines 72-76
delete_versions(pv, fault) ==
    IF fault THEN StoreVersionsResult(pv, Raise("OperationalError"))
    ELSE StoreVersionsResult(<<>>, Return(None))

\* get_packages, lines 32-35: the rows of the table as a DataFrame
get_packages(pk) == pk

(***************************************************************************)
(* Inputs: the database file and the arguments of the database module.     *)
(***************************************************************************)
VersionRow(id, version, at) ==
    [package_id |-> id, version_string |-> version, uploaded_at |-> at]
InitialPackages ==
    {<<>>,
     <<[package_id |-> 1, package_name |-> "pandas"]>>,
     <<[package_id |-> 1, package_name |-> "pandas"],
       [package_id |-> 2, package_name |-> "numpy"]>>}
\* the versions that an earlier update has stored
InitialVersions(pk) ==
    {<<>>} \cup
    (IF pk = <<>> THEN {}
     ELSE {<<VersionRow(PyInt(1), PyStr("0.9"), PyDatetime(40000))>>})
PackageNameArgs == {None, PyStr(""), PyStr("pandas"), PyStr("xlwings")}
\* DataFrames with the columns uploaded_at, version_string, package_id
VersionFrames ==
    {<<>>,
     <<VersionRow(PyInt(1), PyStr("1.0"), PyDatetime(41000))>>,
     <<VersionRow(PyInt(1), PyStr("1.0"), PyDatetime(41000)),
       VersionRow(PyInt(1), PyStr("1.1"), PyDatetime(41001))>>,
     <<VersionRow(PyInt(2), PyStr("1.0"), PyDatetime(41002)),
       VersionRow(PyInt(7), PyStr("1.0"), PyDatetime(41003))>>,
     <<VersionRow(PyInt(3), PyStr("0.1"), PyDatetime(41004))>>,
     <<VersionRow(PyInt(1), PyStr("2.0"), None)>>,
     <<VersionRow(None, PyStr("1.0"), PyDatetime(41005))>>}
\* whether the next statement fails in the database
FaultChoices(left) == IF left > 0 THEN {FALSE, TRUE} ELSE {FALSE}
Spend(fault) == IF fault THEN 1 ELSE 0

(***************************************************************************)
(* Calls of the functions of the database module, one after the other.     *)
(***************************************************************************)
InitDb ==
    /\ call = NoCall
    /\ ret = None
    /\ sheet = NoSheet
    /\ PoolIdle
    /\ packages \in InitialPackages
    /\ package_versions \in InitialVersions(packages)
    /\ faults \in 0..MaxFaults
    /\ ncalls = 0
    /\ MacroIdle

StorePackageReturns(r) == packages' = r.packages /\ ret' = r.ret
StoreVersionsReturns(r) == package_versions' = r.package_versions /\ ret' = r.ret

CallStorePackage ==
    /\ ncalls < MaxCalls
    /\ \E package_name \in PackageNameArgs, fault \in FaultChoices(faults) :
        /\ call' = [op |-> "store_package", package_name |-> package_name,
                    fault |-> fault, packages |-> packages,
                    package_versions |-> package_versions]
        /\ StorePackageReturns(store_package(packages, package_name, fault))
        /\ faults' = faults - Spend(fault)
    /\ ncalls' = ncalls + 1
    /\ UNCHANGED <<sheet, poolvars, package_versions, macrovars>>

CallStoreVersions ==
    /\ ncalls < MaxCalls
    /\ \E df \in VersionFrames, fault \in FaultChoices(faults) :
        /\ call' = [op |-> "store_versions", df |-> df,
                    fault |-> fault, packages |-> packages,
                    package_versions |-> package_versions]
        /\ StoreVersionsReturns(store_versions(packages, package_versions, df, fault))
        /\ faults' = faults - Spend(fault)
    /\ ncalls' = ncalls + 1
    /\ UNCHANGED <<sheet, poolvars, packages, macrovars>>

CallDeleteVersions ==
    /\ ncalls < MaxCalls
    /\ \E fault \in FaultChoices(faults) :
        /\ call' = [op |-> "delete_versions",
                    fault |-> fault, packages |-> packages,
                    package_versions |-> package_versions]
        /\ StoreVersionsReturns(delete_versions(package_versions, fault))
        /\ faults' = faults - Spend(fault)
    /\ ncalls' = ncalls + 1
    /\ UNCHANGED <<sheet, poolvars, packages, macrovars>>

NextDb == CallStorePackage \/ CallStoreVersions \/ CallDeleteVersions

SpecDb == InitDb /\ [][NextDb]_vars

(***************************************************************************)
(* The macros of the package tracker (src/packagetracker/packagetracker.py)*)
(*   tpc:      where the running macro stands                              *)
(*   caller:   the macro that Excel called                                 *)
(*   cells:    the named cells of the workbook that the macros touch       *)
(*   todo:     the rows of df_packages the loop has still to visit         *)
(*   logs:     the list logs of update_database                            *)
(*   response: the parsed JSON of the request of the current package       *)
(*   events:   what the running macro has done so far, in order            *)
(* A macro runs alone: Excel calls the next one when the last has ended.   *)
(***************************************************************************)
Event(e, name, r) == [e |-> e, name |-> name, response |-> r]
Did(e) == Event(e, "", NoResponse)

\* what requests.get gives: a response with a status code and, parsed by
\* ret.json(), the releases (version, upload times of the files), or an
\* exception
HttpStatus(status, releases) == [k |-> "status", status |-> status, releases |-> releases]
HttpRaises == [k |-> "raise", status |-> 0, releases |-> <<>>]
Release(version, files) == [version |-> version, files |-> files]
\* "upload_time" of a file, an ISO 8601 string
IsoString(t) == [k |-> "iso", v |-> t]
\* pd.to_datetime of such a string
to_datetime(s) == PyDatetime(s.v)
HTTP_OK == 200
HTTP_NOT_FOUND == 404

\* bool(value) of a cell value or of the value store_package returns
Truthy(value) == value # None /\ value.v # ""

\* lines 83-86: the releases that have files, as tuples
\* (files[0]["upload_time"], version, package_id)
RECURSIVE Releases(_, _)
Releases(rels, package_id) ==
    IF rels = <<>> THEN <<>>
    ELSE IF Head(rels).files # <<>>
    THEN <<VersionRow(PyInt(package_id), PyStr(Head(rels).version), Head(rels).files[1])>>
             \o Releases(Tail(rels), package_id)
    ELSE Releases(Tail(rels), package_id)
\* line 89: df_releases["uploaded_at"] = pd.to_datetime(...)
RowsToDatetime(rows) ==
    [i \in DOMAIN rows |-> [rows[i] EXCEPT !.uploaded_at = to_datetime(rows[i].uploaded_at)]]
\* line 90: sort_values("uploaded_at")
RECURSIVE InsertByUploadedAt(_, _)
InsertByUploadedAt(row, sorted) ==
    IF sorted = <<>> THEN <<row>>
    ELSE IF row.uploaded_at.v < Head(sorted).uploaded_at.v THEN <<row>> \o sorted
    ELSE <<Head(sorted)>> \o InsertByUploadedAt(row, Tail(sorted))
RECURSIVE sort_values(_)
sort_values(rows) ==
    IF rows = <<>> THEN <<>>
    ELSE InsertByUploadedAt(Head(rows), sort_values(Tail(rows)))
\* lines 83-90: df_releases
df_releases(json, package_id) ==
    sort_values(RowsToDatetime(Releases(json.releases, package_id)))

\* dt.datetime.now(tz.UTC).isoformat()
NowIsoformat == "2020-11-18T09:30:00+00:00"
\* the column of names that refresh_dropdown writes
NamesOf(pk) == [i \in DOMAIN pk |-> pk[i].package_name]

(***************************************************************************)
(* Inputs: the workbook, what the user typed, what PyPI answers.           *)
(***************************************************************************)
UsedCells(pk) ==
    [new_package |-> None, feedback |-> PyStr("Added pandas successfully."),
     log |-> <<"INFO: pandas downloaded successfully">>,
     updated_at |-> PyStr("Last updated: 2020-11-17T08:00:00+00:00"),
     package_selection |-> PyStr("pandas"),
     dropdown_content |-> NamesOf(pk)]
Workbooks(pk) == {NoCells} \cup (IF pk = <<>> THEN {} ELSE {UsedCells(pk)})
\* the value of the cell new_package
TypedNames == {None, PyStr(""), PyStr("pandas"), PyStr("xlwings")}
ReleaseLists ==
    {<<>>,
     <<Release("1.1", <<IsoString(41001), IsoString(41007)>>),
       Release("1.0.dev0", <<>>),
       Release("1.0", <<IsoString(41000)>>)>>}
Responses ==
    {HttpRaises, HttpStatus(HTTP_NOT_FOUND, <<>>)}
        \cup {HttpStatus(HTTP_OK, rels) : rels \in ReleaseLists}

(***************************************************************************)
(* The macros, step by step.                                               *)
(***************************************************************************)
InitTracker ==
    /\ call = NoCall
    /\ ret = None
    /\ sheet = NoSheet
    /\ PoolIdle
    /\ packages \in InitialPackages
    /\ package_versions \in InitialVersions(packages)
    /\ faults \in 0..MaxFaults
    /\ ncalls = 0
    /\ tpc = "idle"
    /\ caller = "none"
    /\ cells \in Workbooks(packages)
    /\ todo = <<>>
    /\ logs = <<>>
    /\ response = NoResponse
    /\ events = <<>>

\* Excel calls a macro when no macro runs
Resting == tpc \in {"idle", "done", "failed"} /\ ncalls < MaxMacros
MacroCall(op, package_name) ==
    [op |-> op, package_name |-> package_name, fault |-> FALSE,
     packages |-> packages, package_versions |-> package_versions,
     faults |-> faults, cells |-> cells]
\* the macro ends: it returns, or the exception leaves it
Ends(outcome) ==
    /\ tpc' = IF outcome.k = "raise" THEN "failed" ELSE "done"
    /\ ret' = outcome

\* add_package, lines 20-35: the cells, the cleared feedback, the empty name
CallAddPackage ==
    /\ Resting
    /\ \E typed \in TypedNames :
        /\ call' = MacroCall("add_package", typed)
        /\ IF ~Truthy(typed)
           THEN /\ cells' = [cells EXCEPT !.new_package = typed,
                                 !.feedback = PyStr("Error: Please provide a name!")]
                /\ events' = <<Did("feedback")>>
                /\ Ends(Return(None))
           ELSE /\ cells' = [cells EXCEPT !.new_package = typed, !.feedback = None]
                /\ events' = <<>>
                /\ tpc' = "add_request"
                /\ ret' = None
    /\ caller' = "add_package"
    /\ ncalls' = ncalls + 1
    /\ todo' = <<>>
    /\ logs' = <<>>
    /\ response' = NoResponse
    /\ UNCHANGED <<sheet, poolvars, packages, package_versions, faults>>

\* add_package that goes on to store_package whatever the status code is
AddPackageRequestNoStatusTest ==
    /\ tpc = "add_request"
    /\ \E r \in Responses :
        /\ events' = Append(events, Event("add_package.request", call.package_name.v, r))
        /\ IF r.k = "raise"
           THEN /\ Ends(Raise("ConnectionError"))
                /\ UNCHANGED cells
           ELSE /\ tpc' = "add_store"
                /\ UNCHANGED <<cells, ret>>
    /\ UNCHANGED <<call, sheet, poolvars, dbvars, caller, todo, logs, response>>
\* add_package, lines 36-39: the request that checks the name
AddPackageRequest ==
    /\ tpc = "add_request"
    /\ \E r \in Responses :
        /\ events' = Append(events, Event("add_package.request", call.package_name.v, r))
        /\ IF r.k = "raise"
           THEN /\ Ends(Raise("ConnectionError"))
                /\ UNCHANGED cells
           ELSE IF r.status # HTTP_OK
           THEN /\ cells' = [cells EXCEPT !.feedback = PyStr("Error: Package not found!")]
                /\ Ends(Return(None))
           ELSE /\ tpc' = "add_store"
                /\ UNCHANGED <<cells, ret>>
    /\ UNCHANGED <<call, sheet, poolvars, dbvars, caller, todo, logs, response>>

\* add_package that updates and refreshes whatever store_package returned
AddPackageStoredNoTest(r) ==
    /\ packages' = r.packages
    /\ events' = events \o <<Event("store_package", call.package_name.v, NoResponse),
                            Did("feedback")>>
    /\ cells' = [cells EXCEPT !.new_package = None,
                     !.feedback = IF Truthy(r.ret.v)
                                  THEN PyStr("Error: " \o r.ret.v.v)
                                  ELSE PyStr("Added " \o Str(call.package_name)
                                                 \o " successfully.")]
    /\ tpc' = "update_start"
    /\ UNCHANGED ret
\* add_package, lines 42-50: after store_package has returned
AddPackageStored(r) ==
    /\ packages' = r.packages
    /\ events' = events \o <<Event("store_package", call.package_name.v, NoResponse),
                            Did("feedback")>>
    /\ IF Truthy(r.ret.v)
       THEN /\ cells' = [cells EXCEPT !.new_package = None,
                             !.feedback = PyStr("Error: " \o r.ret.v.v)]
            /\ Ends(Return(None))
       ELSE /\ cells' = [cells EXCEPT !.new_package = None,
                             !.feedback = PyStr("Added " \o Str(call.package_name)
                                                    \o " successfully.")]
            /\ tpc' = "update_start"
            /\ UNCHANGED ret
AddPackageStore ==
    /\ tpc = "add_store"
    /\ \E fault \in FaultChoices(faults) :
        /\ AddPackageStored(store_package(packages, call.package_name, fault))
        /\ faults' = faults - Spend(fault)
    /\ UNCHANGED <<call, sheet, poolvars, package_versions, ncalls, caller, todo,
                   logs, response>>

\* update_database, lines 55-69: the cleared log and the deleted versions
UpdateDeleted(evs, r) ==
    /\ cells' = [cells EXCEPT !.log = <<>>]
    /\ events' = evs \o <<Did("update_database"), Did("delete_versions")>>
    /\ package_versions' = r.package_versions
    /\ logs' = <<>>
    /\ response' = NoResponse
    /\ IF r.ret.k = "raise"
       THEN /\ Ends(r.ret)
            /\ todo' = <<>>
       ELSE /\ tpc' = "update_loop"
            /\ ret' = None
            /\ todo' = get_packages(packages)
CallUpdateDatabase ==
    /\ Resting
    /\ call' = MacroCall("update_database", None)
    /\ caller' = "update_database"
    /\ ncalls' = ncalls + 1
    /\ \E fault \in FaultChoices(faults) :
        /\ UpdateDeleted(<<>>, delete_versions(package_versions, fault))
        /\ faults' = faults - Spend(fault)
    /\ UNCHANGED <<sheet, poolvars, packages>>
\* add_package, line 51
AddPackageUpdates ==
    /\ tpc = "update_start"
    /\ \E fault \in FaultChoices(faults) :
        /\ UpdateDeleted(events, delete_versions(package_versions, fault))
        /\ faults' = faults - Spend(fault)
    /\ UNCHANGED <<call, sheet, poolvars, packages, ncalls, caller>>

\* update_database, lines 72-80: the request of the next package
UpdateRequest ==
    /\ tpc = "update_loop"
    /\ todo # <<>>
    /\ \E r \in Responses :
        /\ events' = Append(events, Event("update_database.request",
                                          Head(todo).package_name, r))
        /\ IF r.k = "raise"
           THEN /\ Ends(Raise("ConnectionError"))
                /\ UNCHANGED <<todo, logs, response>>
           ELSE IF r.status = HTTP_OK
           THEN /\ response' = r
                /\ logs' = Append(logs, "INFO: " \o Head(todo).package_name
                                            \o " downloaded successfully")
                /\ tpc' = "update_store"
                /\ UNCHANGED <<todo, ret>>
           ELSE /\ logs' = Append(logs, "ERROR: Could not download data for "
                                            \o Head(todo).package_name)
                /\ todo' = Tail(todo)
                /\ UNCHANGED <<tpc, ret, response>>
    /\ UNCHANGED <<call, sheet, poolvars, dbvars, caller, cells>>

\* update_database, lines 83-92: after store_versions has returned or raised
UpdateStored(r) ==
    /\ package_versions' = r.package_versions
    /\ events' = Append(events, Event("store_versions", Head(todo).package_name,
                                      NoResponse))
    /\ IF r.ret.k = "raise"
       THEN /\ Ends(r.ret)
            /\ UNCHANGED <<todo, logs, response>>
       ELSE /\ logs' = Append(logs, "INFO: " \o Head(todo).package_name
                                        \o " stored to database successfully")
            /\ todo' = Tail(todo)
            /\ response' = NoResponse
            /\ tpc' = "update_loop"
            /\ UNCHANGED ret
UpdateStore ==
    /\ tpc = "update_store"
    /\ \E fault \in FaultChoices(faults) :
        /\ UpdateStored(store_versions(packages, package_versions,
                                       df_releases(response, Head(todo).package_id),
                                       fault))
        /\ faults' = faults - Spend(fault)
    /\ UNCHANGED <<call, sheet, poolvars, packages, ncalls, caller, cells>>

\* update_database that writes the timestamp and the log inside the loop
UpdateFinishInLoop ==
    /\ tpc = "update_loop"
    /\ cells' = [cells EXCEPT !.updated_at = PyStr("Last updated: " \o NowIsoformat),
                              !.log = logs]
    /\ events' = Append(events, Did("write_log"))
    /\ IF caller = "add_package"
       THEN /\ tpc' = "refresh"
            /\ UNCHANGED ret
       ELSE Ends(Return(None))
    /\ UNCHANGED <<call, sheet, poolvars, dbvars, caller, todo, logs, response>>
\* update_database, lines 95-97: the timestamp and the log
UpdateFinish ==
    /\ tpc = "update_loop"
    /\ todo = <<>>
    /\ cells' = [cells EXCEPT !.updated_at = PyStr("Last updated: " \o NowIsoformat),
                              !.log = logs]
    /\ events' = Append(events, Did("write_log"))
    /\ IF caller = "add_package"
       THEN /\ tpc' = "refresh"
            /\ UNCHANGED ret
       ELSE Ends(Return(None))
    /\ UNCHANGED <<call, sheet, poolvars, dbvars, caller, todo, logs, response>>

\* refresh_dropdown, lines 155-172
Refreshed(evs) ==
    /\ cells' = [cells EXCEPT !.package_selection = None,
                              !.dropdown_content = NamesOf(get_packages(packages))]
    /\ events' = Append(evs, Did("refresh_dropdown"))
    /\ Ends(Return(None))
CallRefreshDropdown ==
    /\ Resting
    /\ call' = MacroCall("refresh_dropdown", None)
    /\ caller' = "refresh_dropdown"
    /\ ncalls' = ncalls + 1
    /\ Refreshed(<<>>)
    /\ todo' = <<>>
    /\ logs' = <<>>
    /\ response' = NoResponse
    /\ UNCHANGED <<sheet, poolvars, packages, package_versions, faults>>
\* add_package, line 52
AddPackageRefreshes ==
    /\ tpc = "refresh"
    /\ Refreshed(events)
    /\ UNCHANGED <<call, sheet, poolvars, dbvars, caller, todo, logs, response>>

NextTracker ==
    \/ CallAddPackage
    \/ AddPackageRequest
    \/ AddPackageStore
    \/ AddPackageUpdates
    \/ AddPackageRefreshes
    \/ CallUpdateDatabase
    \/ UpdateRequest
    \/ UpdateStore
    \/ UpdateFinish
    \/ CallRefreshDropdown

SpecTracker == InitTracker /\ [][NextTracker]_vars

(***************************************************************************)
(* A1 notation as the claims state it.                                     *)
(***************************************************************************)
\* the column number of a letter sequence read as bijective base 26,
\* most significant letter first: A=1, ..., Z=26, AA=27, ...
RECURSIVE ColumnNumber(_)
ColumnNumber(letters) ==
    IF letters = <<>> THEN 0
    ELSE 26 * ColumnNumber(SubSeq(letters, 1, Len(letters) - 1))
         + (CHOOSE i \in 1..26 : Alphabet[i] = letters[Len(letters)])
\* the number a digit sequence denotes, most significant digit first
RECURSIVE RowNumber(_)
RowNumber(digits) ==
    IF digits = <<>> THEN 0
    ELSE 10 * RowNumber(SubSeq(digits, 1, Len(digits) - 1))
         + (CHOOSE d \in 0..9 : DigitChars[d + 1] = digits[Len(digits)])
\* number of letters that start s
LetterCount(s) == Cardinality({i \in DOMAIN s : \A j \in 1..i : IsUpper(s[j])})
LettersOf(s) == SubSeq(s, 1, LetterCount(s))
DigitsOf(s) == SubSeq(s, LetterCount(s) + 1, Len(s))
\* 1 to 3 uppercase letters followed by one or more digits
IsRef(s) ==
    /\ LetterCount(s) \in 1..3
    /\ Len(s) > LetterCount(s)
    /\ \A j \in LetterCount(s) + 1..Len(s) : IsDigit(s[j])
\* ... whose row number is at least 1
IsPlainRef(s) == IsRef(s) /\ RowNumber(DigitsOf(s)) >= 1
PlainRefs == {s \in CellStrs : IsPlainRef(s)}
StripDollars(s) == SelectSeq(s, LAMBDA ch : ch # "$")
\* "Cn", "$Cn", "C$n" and "$C$n"
DollarVariants(p) ==
    {d1 \o LettersOf(p) \o d2 \o DigitsOf(p) : d1 \in Dollar, d2 \in Dollar}

\* what xl_cell_to_rowcol gives for each of these references
RowColOfPlainRef == [p \in PlainRefs |-> xl_cell_to_rowcol(p)]

\* C1: for a reference of 1 to 3 uppercase letters followed by a row number
\* n >= 1, xl_cell_to_rowcol returns (n - 1, k - 1), k the bijective base 26
\* column number of the letters; no reference with other letters or another
\* row number gives the same result.
C1_RowColOfReference ==
    (call.op = "xl_cell_to_rowcol" /\ IsPlainRef(call.cell_str)) =>
        /\ ret = Return(<<RowNumber(DigitsOf(call.cell_str)) - 1,
                          ColumnNumber(LettersOf(call.cell_str)) - 1>>)
        /\ \A other \in PlainRefs :
              RowColOfPlainRef[other] = ret =>
                  /\ LettersOf(other) = LettersOf(call.cell_str)
                  /\ RowNumber(DigitsOf(other)) = RowNumber(DigitsOf(call.cell_str))
\* a three-letter column and a two-digit row were converted
C1_Witness ==
    /\ call.op = "xl_cell_to_rowcol"
    /\ call.cell_str = <<"A", "B", "Z", "1", "9">>
    /\ ret = Return(<<18, 753>>)

\* C2: the "$" markers do not change the result: "$Cn", "C$n" and "$C$n"
\* give the (row, column) of "Cn", for C of 1 to 3 letters.
C2_DollarsIgnored ==
    call.op = "xl_cell_to_rowcol" =>
        LET p == StripDollars(call.cell_str) IN
        (IsRef(p) /\ call.cell_str \in DollarVariants(p)) =>
            /\ ret.k = "return"
            /\ ret = xl_cell_to_rowcol(p)
\* a reference with both markers was converted
C2_Witness ==
    /\ call.op = "xl_cell_to_rowcol"
    /\ call.cell_str = <<"$", "B", "A", "$", "9", "0">>
    /\ ret = Return(<<89, 52>>)

(***************************************************************************)
(* read and write as the claims state them.                                *)
(***************************************************************************)
\* the 1-based (row, column) of a corner
CornerAsTuple(c) ==
    IF c.k = "tuple" THEN c.v
    ELSE <<RowNumber(DigitsOf(StripDollars(c.v))),
           ColumnNumber(LettersOf(StripDollars(c.v)))>>
AsTuple(c) == IF c = None THEN None ELSE PyTuple(CornerAsTuple(c)[1], CornerAsTuple(c)[2])
ReadKinds == {"xlrd", "openpyxl", "openpyxl_ro", "pyxlsb"}
WriteKinds == {"openpyxl", "xlsxwriter", "xlwt"}
IsRead == call.op = "read"
IsWrite == call.op = "write"

StoredAt(first_cell, kind, ij) ==
    LET rc == CornerAsTuple(first_cell)
        at == <<rc[1] + ij[1], rc[2] + ij[2]>>
    IN  IF kind = "openpyxl" THEN at ELSE <<at[1] - 1, at[2] - 1>>
StoredCells(sh) == IF sh.kind = "xlsxwriter" THEN sh.table ELSE sh.cells
StoredValue(sh, p) ==
    IF sh.kind = "xlsxwriter" THEN sh.table[p] ELSE sh.cells[p].value
WriteReturned == IsWrite /\ call.sheet.kind \in WriteKinds /\ ret = Return(None)

UsedRange(sh) ==
    IF sh.kind = "xlrd"
    THEN [i \in 1..sh.nrows |-> [j \in 1..sh.ncols |-> XlrdCellValue(sh, i - 1, j - 1)]]
    ELSE IF sh.kind = "pyxlsb"
    THEN [i \in 1..Len(sh.rows) |->
             [j \in 1..Len(sh.rows[i]) |-> ErrorsGet(sh.rows[i][j])]]
    ELSE [i \in 1..max_row(sh) |->
             [j \in 1..max_column(sh) |->
                 IF <<i, j>> \in DOMAIN sh.cells THEN sh.cells[<<i, j>>].value
                 ELSE None]]

Cases(cell, datemode, value) ==
    << cell.ctype = XL_CELL_DATE /\ value.k = "datetime"
           /\ value = xldate_as_datetime(cell.value.v, datemode),
       cell.ctype \in {XL_CELL_EMPTY, XL_CELL_BLANK} /\ value = None,
       cell.ctype = XL_CELL_ERROR
           /\ value = PyStr(error_text_from_code[cell.value.v]),
       cell.ctype = XL_CELL_BOOLEAN /\ value.k = "bool"
           /\ value.v = (cell.value.v # 0),
       cell.ctype \notin {XL_CELL_DATE, XL_CELL_EMPTY, XL_CELL_BLANK,
                          XL_CELL_ERROR, XL_CELL_BOOLEAN}
           /\ value = cell.value >>
XlrdReturned == IsRead /\ call.sheet.kind = "xlrd" /\ ret.k = "return"

\* C6: for an xlrd sheet every cell is mapped by its type: date -> datetime,
\* empty or blank -> None, error -> the error text of its code, boolean ->
\* bool, any other type -> the value unchanged; exactly one case applies.
C6_XlrdCellTypes ==
    XlrdReturned =>
        \A i \in DOMAIN ret.v.v : \A j \in DOMAIN ret.v.v[i] :
            LET r == CornerAsTuple(call.first_cell)[1] + i - 2
                c == CornerAsTuple(call.first_cell)[2] + j - 2
                cs == Cases(call.sheet.cells[r][c], call.sheet.datemode, ret.v.v[i][j])
            IN  Cardinality({n \in DOMAIN cs : cs[n]}) = 1
\* a range with a date, a blank, an error and a boolean cell was read
C6_Witness ==
    /\ XlrdReturned
    /\ \E i \in DOMAIN ret.v.v : \E j \in DOMAIN ret.v.v[i] : ret.v.v[i][j].k = "datetime"
    /\ \E i \in DOMAIN ret.v.v : \E j \in DOMAIN ret.v.v[i] : ret.v.v[i][j].k = "bool"
    /\ \E i \in DOMAIN ret.v.v : \E j \in DOMAIN ret.v.v[i] : ret.v.v[i][j] = PyStr("#DIV/0!")
    /\ \E i \in DOMAIN ret.v.v : \E j \in DOMAIN ret.v.v[i] : ret.v.v[i][j] = None

\* C7: read and write raise TypeError for an object of none of their sheet
\* types; read returns nothing and write has written no cell.
C7_TypeError ==
    /\ (IsRead /\ call.sheet.kind \notin ReadKinds) =>
           ret = Raise("TypeError") /\ sheet = call.sheet
    /\ (IsWrite /\ call.sheet.kind \notin WriteKinds \cup {"openpyxl_ro"}) =>
           ret = Raise("TypeError") /\ sheet = call.sheet
\* write was called with a DataFrame and a non-empty list
C7_Witness ==
    /\ IsWrite
    /\ call.sheet.kind = "DataFrame"
    /\ Len(call.values) = 2
    /\ ret = Raise("TypeError")

\* C8: for an xlsxwriter sheet every call of write with a date_format other
\* than None raises ValueError and leaves the sheet unchanged; for an openpyxl
\* or xlwt sheet a date_format is accepted.
C8_DateFormatRefused ==
    /\ (IsWrite /\ call.sheet.kind = "xlsxwriter" /\ call.date_format # None) =>
           ret = Raise("ValueError") /\ sheet = call.sheet
    /\ (IsWrite /\ call.sheet.kind \in {"openpyxl", "xlwt"}) =>
           ret # Raise("ValueError")
\* write was called on an xlsxwriter sheet with a date_format and values
C8_Witness ==
    /\ IsWrite
    /\ call.sheet.kind = "xlsxwriter"
    /\ call.date_format = PyStr("dd.mm.yyyy")
    /\ Len(call.values) = 2
    /\ ret = Raise("ValueError")

\* the number format of a written cell, and the one the cell has when write
\* sets none
NumberFormatAt(sh, p) ==
    IF sh.kind = "xlwt" THEN sh.cells[p].style ELSE sh.cells[p].number_format
NumberFormatUnset(sh, p) ==
    IF sh.kind = "xlwt" THEN "default" ELSE CellOf(sh, p).number_format
DatesWritten == WriteReturned /\ call.sheet.kind \in {"openpyxl", "xlwt"}

\* C9 as stated: every written date or datetime cell gets "mm/dd/yy", or the
\* date_format that was passed, and no other written cell gets a number format.
C9_AsStated ==
    DatesWritten =>
        \A ij \in Indices(call.values) :
            LET p == StoredAt(call.first_cell, call.sheet.kind, ij)
                value == call.values[ij[1] + 1][ij[2] + 1]
            IN  NumberFormatAt(sheet, p) =
                    IF IsDateValue(value)
                    THEN (IF call.date_format = None THEN "mm/dd/yy"
                          ELSE call.date_format.v)
                    ELSE NumberFormatUnset(call.sheet, p)

\* C9, amended: every written date or datetime cell gets "mm/dd/yy", or the
\* date_format that was passed, except that an empty date_format makes write
\* set no number format on an openpyxl sheet (the cell keeps the format that
\* openpyxl gives a date); no other written cell gets a number format.
C9_DateFormats ==
    DatesWritten =>
        \A ij \in Indices(call.values) :
            LET p == StoredAt(call.first_cell, call.sheet.kind, ij)
                value == call.values[ij[1] + 1][ij[2] + 1]
            IN  NumberFormatAt(sheet, p) =
                    IF ~IsDateValue(value)
                    THEN NumberFormatUnset(call.sheet, p)
                    ELSE IF call.date_format = None THEN "mm/dd/yy"
                    ELSE IF call.sheet.kind = "openpyxl" /\ call.date_format.v = ""
                    THEN BindValue(CellOf(call.sheet, p), value).number_format
                    ELSE call.date_format.v
\* a date and a string were written to an openpyxl sheet with the default
\* date_format
C9_Witness ==
    /\ DatesWritten
    /\ call.sheet.kind = "openpyxl"
    /\ call.date_format = None
    /\ call.first_cell = PyTuple(1, 1)
    /\ call.values = <<<<PyDate(44000), PyStr("a")>>>>
    /\ sheet.cells[<<1, 1>>].number_format = "mm/dd/yy"
    /\ sheet.cells[<<1, 2>>].number_format = "General"

(***************************************************************************)
(* The parallel loaders as the claims state them.                          *)
(***************************************************************************)
IsLoaderCall == call.op \in {"load_workbook", "open_workbook", "read_excel"}
\* the names of the sheets of the file
NamesOfBook == {SheetName(book.sheets[i]) : i \in DOMAIN book.sheets}
\* the names the call asks for
RequestedNames ==
    IF call.sheetnames = None THEN NamesOfBook
    ELSE {call.sheetnames.v[i] : i \in DOMAIN call.sheetnames.v}
SheetNamed(name) ==
    book.sheets[CHOOSE i \in DOMAIN book.sheets : SheetName(book.sheets[i]) = name]
\* the data of the sheet of that name: its used range, as a list of lists or
\* as a DataFrame
DataOfSheet(name) ==
    IF call.op = "read_excel" THEN PyDataFrame(UsedRange(SheetNamed(name)))
    ELSE PyList(UsedRange(SheetNamed(name)))
LoaderReturned == IsLoaderCall /\ pc = "done" /\ ret.k = "return"
\* no task is queued, held by a worker or waiting to be handled, and every
\* argument of starmap has its result
AllSheetsRead ==
    /\ taskqueue = <<>>
    /\ outqueue = <<>>
    /\ \A w \in DOMAIN workers : workers[w] = NoTask
    /\ \A n \in DOMAIN result.value : result.value[n] # None

\* C10: a parallel loader returns a dictionary whose keys are exactly the
\* requested sheet names (all names of the workbook when none are given), each
\* key mapped to the data of the sheet of that name, for every number of
\* worker processes and every order in which the workers take and finish the
\* tasks; it returns only when every requested sheet has been read, and it
\* does return when the workbook has every requested sheet.
C10_LoadersReturnDict ==
    /\ LoaderReturned =>
        /\ ret.v.k = "dict"
        /\ DOMAIN ret.v.v = RequestedNames
        /\ \A name \in RequestedNames :
               name \in NamesOfBook /\ ret.v.v[name] = DataOfSheet(name)
        /\ AllSheetsRead
    /\ (IsLoaderCall /\ pc = "done" /\ RequestedNames \subseteq NamesOfBook) =>
        ret.k = "return"
\* a pool of two processes has read the three sheets of a file, none of them
\* named in the call
C10_Witness ==
    /\ LoaderReturned
    /\ call.processes = 2
    /\ call.sheetnames = None
    /\ Len(book.sheets) = 3
    /\ DOMAIN ret.v.v = {"Sheet1", "Sheet2", "Sheet3"}
    /\ ret.v.v["Sheet3"] = DataOfSheet("Sheet3")


(***************************************************************************)
(* The calls of the database module as the claims state them.              *)
(***************************************************************************)
IsStorePackage == call.op = "store_package"
\* the name of the call is the name of a row the table had before the call
AlreadyInTable ==
    /\ call.package_name # None
    /\ call.package_name.v \in PackageNames(call.packages)
\* the table is the table before the call and one more row with the name
NameInserted ==
    /\ call.package_name # None
    /\ Len(packages) = Len(call.packages) + 1
    /\ SubSeq(packages, 1, Len(call.packages)) = call.packages
    /\ packages[Len(packages)].package_name = call.package_name.v
    /\ packages[Len(packages)].package_id \notin PackageIds(call.packages)
\* repr() of the IntegrityError of a NULL package name
ReprNotNull ==
    "IntegrityError('(sqlite3.IntegrityError) NOT NULL constraint failed: packages.package_name')"
\* repr() of the exception that made the INSERT of the call fail
ReprOfFailure == IF call.fault THEN ReprOperationalError ELSE ReprNotNull

\* C11: store_package never raises; it returns None when the name was
\* inserted into packages, "<package_name> already exists" when the name is
\* already in the table, and the repr of the exception for any other
\* failure; whenever it returns a value that is not None the packages table
\* is unchanged.
C11_AsStated ==
    IsStorePackage =>
        /\ ret.k = "return"
        /\ (ret.v = None) = NameInserted
        /\ (AlreadyInTable /\ ~call.fault) =>
               ret.v = PyStr(call.package_name.v \o " already exists")
        /\ (ret.v # None /\ ~(AlreadyInTable /\ ~call.fault)) =>
               ret.v = PyStr(ReprOfFailure)
        /\ ret.v # None => packages = call.packages


IsStoreVersions == call.op = "store_versions"
\* the row has the package_id of a row of the packages table
References(row, pk) ==
    /\ row.package_id # None
    /\ row.package_id.v \in PackageIds(pk)
\* some row of the DataFrame of the call has a package_id that is not in
\* the packages table
FrameHasStrangers ==
    \E i \in DOMAIN call.df : ~References(call.df[i], call.packages)

\* C12: after any sequence of store_package, store_versions and
\* delete_versions calls every row of package_versions has a package_id that
\* is the package_id of a row of packages, and a store_versions call with a
\* package_id that is not in packages fails without adding rows.
C12_AsStated ==
    /\ \A i \in DOMAIN package_versions : References(package_versions[i], packages)
    /\ (IsStoreVersions /\ FrameHasStrangers) =>
           /\ ret.k = "raise"
           /\ package_versions = call.package_versions


(***************************************************************************)
(* The macros as the claims state them.                                    *)
(***************************************************************************)
HasEvent(e) == \E i \in DOMAIN events : events[i].e = e
EventsOf(e) == {i \in DOMAIN events : events[i].e = e}
\* update_database has run to its end
UpdateCompleted == HasEvent("write_log")
\* what PyPI answered to update_database for the package of the name
AnswersFor(name) ==
    {events[i].response : i \in {j \in EventsOf("update_database.request") :
                                    events[j].name = name}}
\* the rows of the releases with files of an answer for a package
RowsOfAnswer(package_id, r) ==
    {VersionRow(PyInt(package_id), PyStr(r.releases[n].version),
                PyDatetime(r.releases[n].files[1].v)) :
        n \in {m \in DOMAIN r.releases : r.releases[m].files # <<>>}}
\* the rows of the answers with status 200
RowsOfAnswers ==
    UNION {UNION {RowsOfAnswer(packages[p].package_id, r) :
                     r \in {a \in AnswersFor(packages[p].package_name) :
                               a.status = HTTP_OK}} :
              p \in DOMAIN packages}
RowsOfTable == {package_versions[i] : i \in DOMAIN package_versions}

\* C13: update_database deletes all records of package_versions before it
\* fetches or stores anything; when it completes, the table holds exactly
\* one row per release with at least one file of every package whose
\* request returned status 200, no row for a package whose request
\* returned another status, and no row from before the call.
C13_DeleteAndRepopulate ==
    /\ \A i \in EventsOf("update_database.request") \cup EventsOf("store_versions") :
           \E j \in EventsOf("delete_versions") : j < i
    /\ tpc \in {"update_loop", "update_store"} => RowsOfTable \subseteq RowsOfAnswers
    /\ UpdateCompleted =>
           /\ \A p \in DOMAIN packages :
                  Cardinality(AnswersFor(packages[p].package_name)) = 1
           /\ RowsOfTable = RowsOfAnswers
           /\ Len(package_versions) = Cardinality(RowsOfAnswers)
\* an update that ran to its end over a table with old rows, with a package
\* that was downloaded and one that was not
C13_Witness ==
    /\ UpdateCompleted
    /\ call.package_versions # <<>>
    /\ package_versions # <<>>
    /\ \E p \in DOMAIN packages :
           \E r \in AnswersFor(packages[p].package_name) : r.status # HTTP_OK


IsAddPackage == caller = "add_package"
\* store_package was called and returned None: the table has the new row
StoreSucceeded == HasEvent("store_package") /\ packages # call.packages
\* store_package was called and returned an error
StoreFailed == HasEvent("store_package") /\ packages = call.packages
\* the error store_package returned: the only statement of the run that can
\* have failed in the database is its INSERT
StoreError ==
    store_package(call.packages, call.package_name, faults < call.faults).ret.v.v

EmptyName == call.package_name = None \/ call.package_name.v = ""
\* the status code of the request of add_package was not 200
NotFound ==
    \E i \in EventsOf("add_package.request") :
        events[i].response.k = "status" /\ events[i].response.status # HTTP_OK

\* C17: with an empty package name add_package writes "Error: Please
\* provide a name!" and returns without sending a PyPI request; when the
\* request for the name returns a status other than 200 it writes "Error:
\* Package not found!" and returns; in both cases store_package,
\* update_database and refresh_dropdown are not called and the packages and
\* package_versions tables are unchanged.
C17_ValidatedBeforeDatabase ==
    IsAddPackage =>
        /\ EmptyName =>
               /\ cells.feedback = PyStr("Error: Please provide a name!")
               /\ EventsOf("add_package.request") = {}
        /\ (~EmptyName /\ NotFound) =>
               cells.feedback = PyStr("Error: Package not found!")
        /\ (EmptyName \/ NotFound) =>
               /\ tpc = "done"
               /\ ret = Return(None)
               /\ ~HasEvent("store_package")
               /\ ~HasEvent("update_database")
               /\ ~HasEvent("refresh_dropdown")
               /\ packages = call.packages
               /\ package_versions = call.package_versions
        /\ HasEvent("store_package") =>
               \E i \in EventsOf("add_package.request") :
                   /\ events[i].response.status = HTTP_OK
                   /\ \A j \in EventsOf("store_package") : i < j
\* add_package has ended after PyPI did not know the name, on a database
\* with versions
C17_Witness ==
    /\ IsAddPackage
    /\ NotFound
    /\ tpc = "done"
    /\ package_versions # <<>>


Downloaded(name) == "INFO: " \o name \o " downloaded successfully"
Stored(name) == "INFO: " \o name \o " stored to database successfully"
NotDownloaded(name) == "ERROR: Could not download data for " \o name
\* the entries of a package whose request was answered
EntriesOf(name) ==
    IF \E r \in AnswersFor(name) : r.status = HTTP_OK
    THEN <<Downloaded(name), Stored(name)>>
    ELSE <<NotDownloaded(name)>>
\* the entries of the packages, in the order of the table
RECURSIVE LogOf(_)
LogOf(pk) ==
    IF pk = <<>> THEN <<>>
    ELSE EntriesOf(Head(pk).package_name) \o LogOf(Tail(pk))
InSeq(x, seq) == \E i \in DOMAIN seq : seq[i] = x
\* update_database is under way: it has not written its log
Updating == HasEvent("update_database") /\ ~HasEvent("write_log")

\* C18: the log written by update_database has, for the packages in the
\* order of the packages table, either the single entry "ERROR: Could not
\* download data for <name>" or the entry "INFO: <name> downloaded
\* successfully" immediately followed by "INFO: <name> stored to database
\* successfully"; a "stored" entry is logged only after the versions of the
\* package were stored, and the "Last updated" timestamp and the log are
\* written only after all packages were processed.
C18_LogOfUpdate ==
    /\ UpdateCompleted =>
           /\ cells.log = LogOf(packages)
           /\ cells.updated_at = PyStr("Last updated: " \o NowIsoformat)
           /\ todo = <<>>
           /\ \A p \in DOMAIN packages : AnswersFor(packages[p].package_name) # {}
    /\ Updating =>
           /\ cells.log = <<>>
           /\ cells.updated_at = call.cells.updated_at
    /\ \A p \in DOMAIN packages :
           InSeq(Stored(packages[p].package_name), logs) =>
               /\ \E i \in EventsOf("store_versions") :
                      events[i].name = packages[p].package_name
               /\ \A r \in AnswersFor(packages[p].package_name) :
                      RowsOfAnswer(packages[p].package_id, r) \subseteq RowsOfTable
\* an update has written a log with the entries of a package that was not
\* downloaded before those of one that was downloaded and stored
C18_Witness ==
    /\ UpdateCompleted
    /\ Len(cells.log) = 3
    /\ cells.log[1] = NotDownloaded(packages[1].package_name)
    /\ cells.log[3] = Stored(packages[2].package_name)
    /\ package_versions # <<>>


\* update_database has stopped with an error
UpdateFailed == HasEvent("update_database") /\ tpc = "failed"
\* ... while fetching or storing the versions of some package
FailedInLoop ==
    /\ UpdateFailed
    /\ EventsOf("update_database.request") # {}
\* the rows of the packages that update_database has stored
RowsStored ==
    UNION {UNION {RowsOfAnswer(packages[p].package_id, r) :
                     r \in AnswersFor(packages[p].package_name)} :
              p \in {q \in DOMAIN packages :
                        InSeq(Stored(packages[q].package_name), logs)}}

\* C20, as stated: update_database is all-or-nothing for package_versions;
\* if it stops with an error while fetching or storing the versions of some
\* package, the table has the same rows it had before the call.
C20_AsStated == FailedInLoop => package_versions = call.package_versions

\* C20, amended: update_database is not all-or-nothing; it deletes the rows
\* first, and if it then stops with an error while fetching or storing the
\* versions of some package, the table holds exactly the rows of the
\* packages stored before the error; only when delete_versions itself fails
\* does the table keep the rows it had before the call.
C20_DeletedThenPartial ==
    /\ FailedInLoop =>
           /\ RowsOfTable = RowsStored
           /\ Len(package_versions) = Cardinality(RowsStored)
    /\ (UpdateFailed /\ ~FailedInLoop) => package_versions = call.package_versions
\* an update over a table with old rows has stopped with an error after it
\* had stored the versions of a package
C20_Witness ==
    /\ FailedInLoop
    /\ call.package_versions # <<>>
    /\ package_versions # <<>>
    /\ package_versions # call.package_versions


(***************************************************************************)
(* Ranges and error codes of read as the claims state them.                *)
(***************************************************************************)
\* the numbers of rows and of columns of an xlrd or pyxlsb sheet
RowsOfSheet(sh) == IF sh.kind = "xlrd" THEN sh.nrows ELSE Len(sh.rows)
ColsOfSheet(sh) ==
    IF sh.kind = "xlrd" THEN sh.ncols
    ELSE IF sh.rows = <<>> THEN 0 ELSE Len(sh.rows[1])
FirstRow == CornerAsTuple(call.first_cell)[1]
FirstCol == CornerAsTuple(call.first_cell)[2]
LastRow == CornerAsTuple(call.last_cell)[1]
LastCol == CornerAsTuple(call.last_cell)[2]
\* read was called on an xlrd or pyxlsb sheet with two corners inside the
\* sheet, the first above and left of the last
RectangleInside ==
    /\ IsRead
    /\ call.sheet.kind \in {"xlrd", "pyxlsb"}
    /\ call.last_cell # None
    /\ 1 <= FirstRow /\ FirstRow <= LastRow /\ LastRow <= RowsOfSheet(call.sheet)
    /\ 1 <= FirstCol /\ FirstCol <= LastCol /\ LastCol <= ColsOfSheet(call.sheet)

\* C15: for an xlrd or pyxlsb sheet and corners (r1, c1), (r2, c2) with
\* r1 <= r2 and c1 <= c2 inside the sheet, read returns the rectangle
\* inclusive of both corners in row-major order: r2 - r1 + 1 rows of
\* c2 - c1 + 1 values, result[i][j] the value of the cell at 1-based row
\* r1 + i and column c1 + j.
C15_RectangleInclusive ==
    RectangleInside =>
        /\ ret.k = "return"
        /\ Len(ret.v.v) = LastRow - FirstRow + 1
        /\ \A i \in 0..LastRow - FirstRow :
               /\ Len(ret.v.v[i + 1]) = LastCol - FirstCol + 1
               /\ \A j \in 0..LastCol - FirstCol :
                      ret.v.v[i + 1][j + 1] = UsedRange(call.sheet)[FirstRow + i][FirstCol + j]
\* the second column of a 2 x 2 pyxlsb sheet was read
C15_Witness ==
    /\ RectangleInside
    /\ call.sheet.kind = "pyxlsb"
    /\ <<FirstRow, FirstCol>> = <<1, 2>>
    /\ <<LastRow, LastCol>> = <<2, 2>>
    /\ Len(ret.v.v) = 2
    /\ Len(ret.v.v[2]) = 1
    /\ ret.v.v[1][1] # ret.v.v[2][1]


\* the seven error codes and their Excel error texts
ErrorCodes == {"0x0", "0x7", "0xf", "0x17", "0x1d", "0x24", "0x2a"}
ErrorTextOf(code) ==
    CASE code = "0x0" -> "#NULL!"
      [] code = "0x7" -> "#DIV/0!"
      [] code = "0xf" -> "#VALUE!"
      [] code = "0x17" -> "#REF!"
      [] code = "0x1d" -> "#NAME?"
      [] code = "0x24" -> "#NUM!"
      [] code = "0x2a" -> "#N/A"
IsErrorCode(v) == v.k = "str" /\ v.v \in ErrorCodes
PyxlsbReturned == IsRead /\ call.sheet.kind = "pyxlsb" /\ ret.k = "return"
\* the value of the cell of the sheet that result[i][j] was read from
PyxlsbCell(i, j) ==
    call.sheet.rows[CornerAsTuple(call.first_cell)[1] + i - 1]
                   [CornerAsTuple(call.first_cell)[2] + j - 1]
AsRead(v, got) ==
    IF IsErrorCode(v) THEN got = PyStr(ErrorTextOf(v.v)) ELSE got = v

\* C16: for a pyxlsb sheet, read replaces every cell value that is one of
\* the seven error codes "0x0", "0x7", "0xf", "0x17", "0x1d", "0x24", "0x2a"
\* by its Excel error text ("#NULL!", "#DIV/0!", "#VALUE!", "#REF!",
\* "#NAME?", "#NUM!", "#N/A") and returns every other cell value unchanged.
C16_PyxlsbErrorCodes ==
    PyxlsbReturned =>
        \A i \in DOMAIN ret.v.v : \A j \in DOMAIN ret.v.v[i] :
            AsRead(PyxlsbCell(i, j), ret.v.v[i][j])
\* a range with the code of #DIV/0!, a string that is no error code and a
\* number was read
C16_Witness ==
    /\ PyxlsbReturned
    /\ \E i \in DOMAIN ret.v.v : \E j \in DOMAIN ret.v.v[i] :
           PyxlsbCell(i, j) = PyStr("0x7") /\ ret.v.v[i][j] = PyStr("#DIV/0!")
    /\ \E i \in DOMAIN ret.v.v : \E j \in DOMAIN ret.v.v[i] :
           ret.v.v[i][j] = PyStr("a")
    /\ \E i \in DOMAIN ret.v.v : \E j \in DOMAIN ret.v.v[i] :
           ret.v.v[i][j].k = "float"


\* the call has ended
LoaderEnded == IsLoaderCall /\ pc = "done"
\* reading one of the requested sheets fails: the file has no sheet of the
\* name
SomeReadFails == RequestedNames \ NamesOfBook # {}

\* C19: the parallel loaders do not retry and do not aggregate partial
\* results: when reading any one of the requested sheets fails in a worker,
\* the loader call fails with that error, returns no dictionary (not even
\* for the sheets that were read), and the worker pool is shut down when
\* the call ends.
C19_FailsWithoutPartialResult ==
    LoaderEnded =>
        /\ pool_state = "TERMINATE"
        /\ result.number_left = 0
        /\ SomeReadFails =>
               /\ ret = NoSuchSheet(call.op)
               /\ ~result.success
\* a call for three sheets has failed although a worker had read one of them
C19_Witness ==
    /\ LoaderEnded
    /\ SomeReadFails
    /\ ret.k = "raise"
    /\ call.processes = 2
    /\ \E n \in DOMAIN result.value : result.value[n] # None
    /\ \E n \in DOMAIN result.value : result.value[n] = None

====
